---------------------------- MODULE Spec2Model ----------------------------
(***************************************************************************)
(* pancaketrade: the order watcher (src/pancaketrade/watchers/order.py).   *)
(*                                                                         *)
(* One OrderWatcher is modelled: the order record it was built from, its   *)
(* runtime flags and watermarks, the price updates its tracker delivers    *)
(* one at a time, and the execution thread that close() starts, which runs *)
(* concurrently with later price updates.  Every send_message and network  *)
(* call may raise.                                                         *)
(*                                                                         *)
(* Prices are Decimal values in the source.  They are modelled as integers *)
(* in tenths of a BNB (10 is 100, 8.5 is 85, 9.2 is 92).  An optional      *)
(* value is the empty tuple (None) or a one-element tuple.                 *)
(*                                                                         *)
(* The token the order trades is modelled by its record object, its row in *)
(* the database and the locals of buy().  Spec is the watcher alone;       *)
(* TokenSpec adds the front end's edits of the token, for market orders.   *)
(***************************************************************************)
EXTENDS Integers, Sequences, FiniteSets, TLC

VARIABLES
    order_record,   \* the persisted fields the watcher copies in __init__
    stored,         \* the order row still exists in the order table
    active,         \* self.active
    finished,       \* self.finished
    min_price,      \* self.min_price (optional)
    max_price,      \* self.max_price (optional)
    pc,             \* position of the execution thread started by close()
    sent,           \* notifications delivered to the chat, in order
    swaps,          \* calls made to net.buy_tokens / net.sell_tokens, in order
    closes,         \* number of times close() ran
    threads,        \* number of execution threads started
    call,           \* the last operation performed and its input (observer)
    seen,           \* nonzero prices evaluated since the watermark was armed (observer)
    ticked,         \* a nonzero price has already been delivered (observer)
    token_record,   \* the token's record object, shared by the watcher and the front end
    token_row,      \* the token's row in the database
    frame,          \* the locals buy() keeps from before the swap to its write
    log,            \* the token mutations attempted by buy() and by the
                    \* edits of TokenSpec, in order (observer)
    conv,           \* state of each conversation of the admin chat
    user_data,      \* context.user_data: the dict under each key, if any
    watchers,       \* parent.watchers: the TokenWatcher of each tracked address
    token_rows,     \* addresses that have a row in the token table
    order_rows,     \* order rows created by the buy/sell conversation
    status,         \* TradeBot.last_status_message_id, and the update job paused
    scheduler       \* the price job of the tracked token's scheduler

vars == <<order_record, stored, active, finished, min_price, max_price, pc,
          sent, swaps, closes, threads, call, seen, ticked,
          token_record, token_row, frame, log,
          conv, user_data, watchers, token_rows, order_rows, status,
          scheduler>>

\* The token's state, left alone by every step but the buy-price write of
\* buy() and the front end's edits.
token == <<token_record, token_row, frame, log>>

\* The state of the Telegram front end (bot.py, conversations/), left alone
\* by the watcher and by its execution thread.
front == <<conv, user_data, watchers, token_rows, order_rows, status,
           scheduler>>

-----------------------------------------------------------------------------
(* Optional values *)

None == <<>>
Some(v) == <<v>>
Val(x) == x[1]

-----------------------------------------------------------------------------
(* Input domains *)

\* order.py:82 compares self.type with the Cyrillic literal for "buy"
\* (written here "Kupit"); get_type_name uses the Cyrillic literal for
\* "sell" ("Prodat").  The buy/sell conversation stores 'buy' and 'sell'.
TypeBuy == "Kupit"
TypeSell == "Prodat"
ConvBuy == "buy"
ConvSell == "sell"
Types == {TypeBuy, TypeSell, ConvBuy, ConvSell}

\* Number of grid prices (90, 105, ...) added to the prices of the worked
\* example of the trailing buy (10, 8, 8.5, 9.2).
MaxGrid == 1

\* Prices the tracker can deliver, in tenths; 0 is "price not available".
Prices == {0, 80, 85, 92, 100} \cup {75 + 15 * k : k \in 1..MaxGrid}

\* limit_price of the record: absent (market price) or a price.
Limits == {None, Some(85)}

\* trailing_stop of the record: absent or any integer int() accepts.
Trailings == {None, Some(-10), Some(0), Some(10), Some(15)}

\* The records from which a watcher is built.  The buy/sell conversation
\* writes type 'buy' or 'sell' with an empty limit price and above set for
\* 'sell' only; the watcher's own type literals come with every limit price
\* and comparison.
OrderRecords ==
    [type : {TypeBuy, TypeSell}, limit_price : Limits, above : BOOLEAN,
     trailing_stop : Trailings]
    \cup {[type |-> ty, limit_price |-> None, above |-> (ty = ConvSell),
           trailing_stop |-> t] : ty \in {ConvBuy, ConvSell}, t \in Trailings}

\* The direction a stored type value stands for.
IsBuyOrder(rec) == rec.type \in {TypeBuy, ConvBuy}
IsSellOrder(rec) == rec.type \in {TypeSell, ConvSell}

-----------------------------------------------------------------------------
(* The token's Decimal values: exact fractions <<numerator, denominator>>   *)
(* in lowest terms.  Decimal rounds a quotient to 28 significant digits;    *)
(* that rounding is not modelled.                                          *)

RECURSIVE GCD(_, _)
GCD(a, b) == IF b = 0 THEN a ELSE GCD(b, a % b)

Rat(n, d) == LET g == GCD(n, d) IN <<n \div g, d \div g>>
RatAdd(x, y) == Rat(x[1] * y[2] + y[1] * x[2], x[2] * y[2])
RatMul(x, y) == Rat(x[1] * y[1], x[2] * y[2])
RatDiv(x, y) == Rat(x[1] * y[2], x[2] * y[1])
Dec(n) == <<n, 1>>

\* net.get_token_balance before the swap, in tokens
Balances == {0, 100}

\* tokens_out of a successful net.buy_tokens, in tokens
TokensOut == {50}

\* get_human_amount() of the buy order: its amount in BNB
get_human_amount == 40

\* effective_buy_price of the token record when the watcher is built
BuyPrices == {None, Some(<<1, 2>>)}

\* What the user gives the "edit buy price" command: disable, 0, or a price
EditPrices == {None, Some(<<0, 1>>), Some(<<1, 5>>)}

\* default_slippage values, as the strings f'{slippage:.2f}' stores
Slippages == {"1.00", "2.00"}

\* Mutant: the plain mean of the prior and the new price.
BuyPriceAfter_unweighted(before, balance_before, tokens_out) ==
    LET effective_price == RatDiv(Dec(get_human_amount), Dec(tokens_out))
    IN  IF before # None
        THEN Some(RatDiv(RatAdd(Val(before), effective_price), Dec(2)))
        ELSE Some(effective_price)

\* buy(): the effective buy price written after a successful swap
BuyPriceAfter(before, balance_before, tokens_out) ==
    LET effective_price == RatDiv(Dec(get_human_amount), Dec(tokens_out))
    IN  IF before # None
        THEN Some(RatDiv(RatAdd(RatMul(Dec(balance_before), Val(before)),
                                RatMul(Dec(tokens_out), effective_price)),
                         Dec(balance_before + tokens_out)))
        ELSE Some(effective_price)

\* The edit command stores "str(price) if price else None": a price of 0 is
\* stored as no price.
StoredBuyPrice(v) == IF v # None /\ Val(v)[1] # 0 THEN v ELSE None

-----------------------------------------------------------------------------
(* The watcher as a value: what price_update and close read and write *)

Self ==
    [active |-> active, finished |-> finished,
     min_price |-> min_price, max_price |-> max_price,
     sent |-> sent, closes |-> closes, threads |-> threads, pc |-> pc,
     raised |-> FALSE]

\* dispatcher.bot.send_message: delivers the text, or raises.
send_message(s, text, ok) ==
    IF ok THEN [s EXCEPT !.sent = Append(@, text)]
          ELSE [s EXCEPT !.raised = TRUE]

\* Mutant: func is called in place, so control comes back when it has run.
start_in_thread_inline(s, func) ==
    [s EXCEPT !.threads = @ + 1, !.pc = "done"]

\* utils.generic.start_in_thread: a daemon thread running func.
start_in_thread(s, func) ==
    [s EXCEPT !.threads = @ + 1, !.pc = func]

\* OrderWatcher.close
close(s, ok) ==
    LET s1 == [s EXCEPT !.active = FALSE, !.closes = @ + 1]
    IN  IF order_record.type = TypeBuy
        THEN LET s2 == send_message(s1, "attempt_buy", ok)
             IN  IF s2.raised THEN s2 ELSE start_in_thread(s2, "buy")
        ELSE LET s2 == send_message(s1, "attempt_sell", ok)
             IN  IF s2.raised THEN s2 ELSE start_in_thread(s2, "sell")

\* Mutant: an absent limit price read as the price 0.
EffectiveLimit_zero(price) ==
    IF order_record.limit_price # None THEN Val(order_record.limit_price) ELSE 0

\* limit_price if set, else the observed price
EffectiveLimit(price) ==
    IF order_record.limit_price # None THEN Val(order_record.limit_price) ELSE price

\* Mutant: strict comparison.
BelowLimit_strict(price, limit) == price < limit

\* price <= limit_price
BelowLimit(price, limit) == price <= limit

\* Mutant: strict comparison.
AboveLimit_strict(price, limit) == price > limit

\* price >= limit_price
AboveLimit(price, limit) == price >= limit

\* "self.trailing_stop is None"
NoTrailing(t) == t = None

\* "self.trailing_stop" used as a condition: None and 0 are false
TrailingSet(t) == t # None /\ Val(t) # 0

\* rise = ((price / min_price) - 1) * 100; rise > trailing_stop.
\* With the Decimal context's 28 digits the quotient is exact or off by less
\* than 1e-27, far below the gap 1/(100*min_price) between two distinct
\* outcomes, so the comparison is the exact rational one.
RiseExceeds(price, m, t) == (price - m) * 100 > t * m

\* drop = (1 - (price / max_price)) * 100; drop > trailing_stop.
DropExceeds(price, m, t) == (m - price) * 100 > t * m

\* Mutant: the watermark is never moved.
LowerWatermark_stuck(price, m) == m

\* "if price < self.min_price: self.min_price = price"
LowerWatermark(price, m) == IF price < m THEN price ELSE m

\* "if price > self.max_price: self.max_price = price"
RaiseWatermark(price, m) == IF price > m THEN price ELSE m

\* Mutant: a price of 0 is evaluated like any other.
Unavailable_never(price) == FALSE

\* "if price == 0": the price is 0 or not available
Unavailable(price) == price = 0

\* Mutant: the two conditions of price_update_buy lack "not self.above".
price_update_buy_anyside(s, price, okArm, okClose) ==
    IF Unavailable(price) THEN s
    ELSE
      LET limit == EffectiveLimit(price)
          t == order_record.trailing_stop
      IN  IF NoTrailing(t) /\ BelowLimit(price, limit)
          THEN close(s, okClose)
          ELSE IF TrailingSet(t)
                    /\ (BelowLimit(price, limit) \/ s.min_price # None)
          THEN
            LET s1 == IF s.min_price = None
                      THEN send_message(s, "armed", okArm) ELSE s
            IN  IF s1.raised THEN s1
                ELSE
                  LET s2 == IF s.min_price = None
                            THEN [s1 EXCEPT !.min_price = Some(price)] ELSE s1
                      m == Val(s2.min_price)
                  IN  IF price < m
                      THEN [s2 EXCEPT !.min_price = Some(LowerWatermark(price, m))]
                      ELSE IF RiseExceeds(price, m, Val(t))
                      THEN close(s2, okClose)
                      ELSE s2
          ELSE s

\* OrderWatcher.price_update_buy
price_update_buy(s, price, okArm, okClose) ==
    IF Unavailable(price) THEN s
    ELSE
      LET limit == EffectiveLimit(price)
          t == order_record.trailing_stop
          above == order_record.above
      IN  IF NoTrailing(t) /\ ~above /\ BelowLimit(price, limit)
          THEN close(s, okClose)
          ELSE IF TrailingSet(t) /\ ~above
                    /\ (BelowLimit(price, limit) \/ s.min_price # None)
          THEN
            LET s1 == IF s.min_price = None
                      THEN send_message(s, "armed", okArm) ELSE s
            IN  IF s1.raised THEN s1
                ELSE
                  LET s2 == IF s.min_price = None
                            THEN [s1 EXCEPT !.min_price = Some(price)] ELSE s1
                      m == Val(s2.min_price)
                  IN  IF price < m
                      THEN [s2 EXCEPT !.min_price = Some(LowerWatermark(price, m))]
                      ELSE IF RiseExceeds(price, m, Val(t))
                      THEN close(s2, okClose)
                      ELSE s2
          ELSE s

\* Mutant: the notification is sent on every update of the trailing branch.
price_update_sell_renotify(s, price, okArm, okClose) ==
    IF Unavailable(price) THEN s
    ELSE
      LET limit == EffectiveLimit(price)
          t == order_record.trailing_stop
          above == order_record.above
      IN  IF NoTrailing(t) /\ ~above /\ BelowLimit(price, limit)
          THEN close(s, okClose)
          ELSE IF NoTrailing(t) /\ above /\ AboveLimit(price, limit)
          THEN close(s, okClose)
          ELSE IF TrailingSet(t) /\ above
                    /\ (AboveLimit(price, limit) \/ s.max_price # None)
          THEN
            LET s1 == send_message(s, "armed", okArm)
            IN  IF s1.raised THEN s1
                ELSE
                  LET s2 == IF s.max_price = None
                            THEN [s1 EXCEPT !.max_price = Some(price)] ELSE s1
                      m == Val(s2.max_price)
                  IN  IF price > m
                      THEN [s2 EXCEPT !.max_price = Some(RaiseWatermark(price, m))]
                      ELSE IF DropExceeds(price, m, Val(t))
                      THEN close(s2, okClose)
                      ELSE s2
          ELSE s

\* OrderWatcher.price_update_sell
price_update_sell(s, price, okArm, okClose) ==
    IF Unavailable(price) THEN s
    ELSE
      LET limit == EffectiveLimit(price)
          t == order_record.trailing_stop
          above == order_record.above
      IN  IF NoTrailing(t) /\ ~above /\ BelowLimit(price, limit)
          THEN close(s, okClose)
          ELSE IF NoTrailing(t) /\ above /\ AboveLimit(price, limit)
          THEN close(s, okClose)
          ELSE IF TrailingSet(t) /\ above
                    /\ (AboveLimit(price, limit) \/ s.max_price # None)
          THEN
            LET s1 == IF s.max_price = None
                      THEN send_message(s, "armed", okArm) ELSE s
            IN  IF s1.raised THEN s1
                ELSE
                  LET s2 == IF s.max_price = None
                            THEN [s1 EXCEPT !.max_price = Some(price)] ELSE s1
                      m == Val(s2.max_price)
                  IN  IF price > m
                      THEN [s2 EXCEPT !.max_price = Some(RaiseWatermark(price, m))]
                      ELSE IF DropExceeds(price, m, Val(t))
                      THEN close(s2, okClose)
                      ELSE s2
          ELSE s

\* Mutant: the two evaluation paths are exchanged.
price_update_swapped(s, price, okArm, okClose) ==
    IF ~s.active THEN s
    ELSE IF order_record.type = TypeBuy
         THEN price_update_sell(s, price, okArm, okClose)
         ELSE price_update_buy(s, price, okArm, okClose)

\* Mutant: the guard is missing.
Inactive_never(s) == FALSE

\* Mutant: the guard reads the wrong flag.
Inactive_finished(s) == s.finished

\* "if not self.active: return"
Inactive(s) == ~s.active

\* OrderWatcher.price_update
price_update(s, price, okArm, okClose) ==
    IF Inactive(s) THEN s
    ELSE IF order_record.type = TypeBuy
         THEN price_update_buy(s, price, okArm, okClose)
         ELSE price_update_sell(s, price, okArm, okClose)

-----------------------------------------------------------------------------
(* The front end as the bot starts: TradeBot.__init__ *)

\* The address of the token the order trades, tracked from the start, and
\* an address the user may add.
Tracked == "0xA"
Addresses == {Tracked, "0xB"}

\* The conversations modelled and the state no conversation is in.
Conversations == {"addtoken", "edittoken", "buysell", "sellall"}
END == "END"

\* The attributes of a TokenWatcher the front end reads and writes; orders
\* is the number of order watchers attached to it.
TokenWatcher(slippage, price, orders) ==
    [default_slippage |-> slippage, effective_buy_price |-> price,
     orders |-> orders, last_status_message_id |-> None]

\* No conversation is under way, the stored token is tracked with the order
\* of this model attached, and /status has not been called.
FrontInit ==
    /\ conv = [c \in Conversations |-> END]
    /\ user_data = [c \in Conversations |-> None]
    /\ watchers = [a \in Addresses |->
                     IF a = Tracked
                     THEN Some(TokenWatcher(token_record.default_slippage,
                                            token_record.effective_buy_price, 1))
                     ELSE None]
    /\ token_rows = {Tracked}
    /\ order_rows = 0
    /\ status = [last_status_message_id |-> None, paused |-> FALSE,
                 running |-> 0, command |-> FALSE]
    /\ scheduler = [due |-> FALSE, running |-> 0]

-----------------------------------------------------------------------------
(* Initial state: OrderWatcher.__init__ on a stored order record *)

\* The watcher and the token as __init__ leaves them, for an order record and
\* an effective buy price of the token from the given sets.
InitFrom(records, prices) ==
    /\ order_record \in records
    /\ token_record \in [effective_buy_price : prices, default_slippage : {"1.00"}]
    /\ token_row = token_record
    /\ frame = None
    /\ log = <<>>
    /\ stored = TRUE
    /\ active = TRUE
    /\ finished = FALSE
    /\ min_price = None
    /\ max_price = None
    /\ pc = "none"
    /\ sent = <<>>
    /\ swaps = <<>>
    /\ closes = 0
    /\ threads = 0
    /\ call = [op |-> "init", price |-> 0, active |-> TRUE, raised |-> FALSE,
               fault |-> "none"]
    /\ seen = {}
    /\ ticked = FALSE
    /\ FrontInit

Init == InitFrom(OrderRecords, {Some(<<1, 2>>)})

-----------------------------------------------------------------------------
(* The tracker delivers a price: order.price_update(price) *)

PriceUpdate ==
    \E price \in Prices, okArm \in BOOLEAN, okClose \in BOOLEAN :
      LET r == price_update(Self, price, okArm, okClose)
      IN  /\ active' = r.active
          /\ min_price' = r.min_price
          /\ max_price' = r.max_price
          /\ sent' = r.sent
          /\ closes' = r.closes
          /\ threads' = r.threads
          /\ pc' = r.pc
          /\ call' = [op |-> "price_update", price |-> price,
                      active |-> active, raised |-> r.raised,
                      fault |-> IF r.raised THEN "send" ELSE "none"]
          /\ seen' = IF active /\ price # 0
                        /\ (r.min_price # None \/ r.max_price # None)
                     THEN seen \cup {price} ELSE seen
          /\ ticked' = (ticked \/ price # 0)
          /\ UNCHANGED <<order_record, stored, finished, swaps, token, front>>

-----------------------------------------------------------------------------
(* The execution thread: OrderWatcher.buy / OrderWatcher.sell               *)
(*                                                                         *)
(* Each step runs the external calls of one stretch of the function in      *)
(* order; n names the call that raises (0: none does).  An exception ends   *)
(* the thread where it is raised: nothing in buy(), sell() or               *)
(* start_in_thread catches it.                                              *)

Send(text) == <<"send", text>>
Net(name) == <<"net", name>>
Db(name) == <<"db", name>>

\* The notifications delivered by a run of calls in which call n raises.
Delivered(calls, n) ==
    LET k == IF n = 0 THEN Len(calls) ELSE n - 1
        done == SelectSeq(SubSeq(calls, 1, k), LAMBDA c : c[1] = "send")
    IN  [i \in 1..Len(done) |-> done[i][2]]

\* What the step did, for the properties: the function running, whether a
\* call raised and which kind of call it was ("send", "net" or "db").
ThreadCall(op, calls, n) ==
    [op |-> op, price |-> 0, active |-> active, raised |-> (n # 0),
     fault |-> IF n = 0 THEN "none" ELSE calls[n][1]]

\* buy(): balance read and net.buy_tokens
BuySwap ==
    /\ pc = "buy"
    /\ \E n \in 0..2, res \in BOOLEAN,
          balance_before \in Balances, tokens_out \in TokensOut :
         /\ swaps' = IF n = 1 THEN swaps ELSE Append(swaps, "buy_tokens")
         /\ pc' = IF n # 0 THEN "dead" ELSE IF res THEN "buy_ok" ELSE "buy_failed"
         /\ frame' = IF n = 0 /\ res
                     THEN Some([balance_before |-> balance_before,
                                buy_price_before |-> token_record.effective_buy_price,
                                tokens_out |-> tokens_out])
                     ELSE frame
         /\ call' = ThreadCall("buy", <<Net("get_token_balance"),
                                        Net("buy_tokens")>>, n)
    /\ UNCHANGED <<order_record, stored, active, finished, min_price, max_price,
                   sent, closes, threads, seen, ticked, token_record, token_row,
                   log, front>>

\* Mutant: the failure path clears the token's buy price.
BuyFailed_writes ==
    /\ pc = "buy_failed"
    /\ \E n \in 0..1 :
         /\ sent' = sent \o Delivered(<<Send("failed")>>, n)
         /\ pc' = IF n # 0 THEN "dead" ELSE "remove"
         /\ call' = ThreadCall("buy", <<Send("failed")>>, n)
    /\ token_record' = [token_record EXCEPT !.effective_buy_price = None]
    /\ token_row' = token_record'
    /\ UNCHANGED <<order_record, stored, active, finished, min_price, max_price,
                   swaps, closes, threads, seen, ticked, frame, log, front>>

\* buy(): "if not res": report the failure
BuyFailed ==
    /\ pc = "buy_failed"
    /\ \E n \in 0..1 :
         /\ sent' = sent \o Delivered(<<Send("failed")>>, n)
         /\ pc' = IF n # 0 THEN "dead" ELSE "remove"
         /\ call' = ThreadCall("buy", <<Send("failed")>>, n)
    /\ UNCHANGED <<order_record, stored, active, finished, min_price, max_price,
                   swaps, closes, threads, seen, ticked, token, front>>

\* buy(): the buy-price write.  db.connect() is outside the try; inside it
\* the transaction may fail to start (nothing assigned) or save() may fail
\* (the record object is assigned, the row is not written); both are
\* reported.  save() writes every field of the record object.
BuyRecord ==
    /\ pc = "buy_ok"
    /\ \E outcome \in {"saved", "save_failed", "atomic_failed", "connect_failed"},
          n \in 0..1 :
         LET f == Val(frame)
             written == [token_record EXCEPT !.effective_buy_price =
                            BuyPriceAfter(f.buy_price_before, f.balance_before,
                                          f.tokens_out)]
             calls == IF outcome = "connect_failed" THEN <<Db("connect")>>
                      ELSE IF outcome = "saved" THEN <<>>
                      ELSE <<Send("buy_price_not_saved")>>
             k == IF outcome = "connect_failed" THEN 1
                  ELSE IF outcome = "saved" THEN 0 ELSE n
         IN  /\ outcome \in {"saved", "connect_failed"} => n = 0
             /\ token_record' = IF outcome \in {"saved", "save_failed"}
                                 THEN written ELSE token_record
             /\ token_row' = IF outcome = "saved" THEN written ELSE token_row
             /\ log' = Append(log, <<"buy", outcome>>)
             /\ sent' = sent \o Delivered(calls, k)
             /\ pc' = IF k # 0 THEN "dead" ELSE "buy_report"
             /\ call' = ThreadCall("buy", calls, k)
    /\ UNCHANGED <<order_record, stored, active, finished, min_price, max_price,
                   swaps, closes, threads, seen, ticked, frame, front>>

\* buy(): report the result, approve the token when it is not approved yet.
\* The step keeps what is_approved answered and the calls it made in call.
BuyReport ==
    /\ pc = "buy_report"
    /\ \E approved \in BOOLEAN, res \in BOOLEAN :
         LET calls == <<Send("closing"), Send("received"), Net("is_approved")>>
                      \o IF approved THEN <<>>
                         ELSE <<Send("approving"), Net("approve"),
                                Send(IF res THEN "approved" ELSE "not_approved")>>
         IN  \E n \in 0..Len(calls) :
               /\ sent' = sent \o Delivered(calls, n)
               /\ pc' = IF n # 0 THEN "dead" ELSE "remove"
               /\ call' = ThreadCall("buy", calls, n)
                            @@ [approved |-> approved, calls |-> calls, n |-> n]
    /\ UNCHANGED <<order_record, stored, active, finished, min_price, max_price,
                   swaps, closes, threads, seen, ticked, token, front>>

\* sell(): balance read and net.sell_tokens
SellSwap ==
    /\ pc = "sell"
    /\ \E n \in 0..2, res \in BOOLEAN :
         /\ swaps' = IF n = 1 THEN swaps ELSE Append(swaps, "sell_tokens")
         /\ pc' = IF n # 0 THEN "dead" ELSE IF res THEN "sell_ok" ELSE "sell_failed"
         /\ call' = ThreadCall("sell", <<Net("get_token_balance_wei"),
                                         Net("sell_tokens")>>, n)
    /\ UNCHANGED <<order_record, stored, active, finished, min_price, max_price,
                   sent, closes, threads, seen, ticked, token, front>>

\* sell(): "if not res": report the failure
SellFailed ==
    /\ pc = "sell_failed"
    /\ \E n \in 0..1 :
         /\ sent' = sent \o Delivered(<<Send("failed")>>, n)
         /\ pc' = IF n # 0 THEN "dead" ELSE "remove"
         /\ call' = ThreadCall("sell", <<Send("failed")>>, n)
    /\ UNCHANGED <<order_record, stored, active, finished, min_price, max_price,
                   swaps, closes, threads, seen, ticked, token, front>>

\* sell(): report the result
SellReport ==
    /\ pc = "sell_ok"
    /\ \E n \in 0..3 :
         LET calls == <<Send("closing"), Net("get_bnb_price"), Send("received")>>
         IN  /\ sent' = sent \o Delivered(calls, n)
             /\ pc' = IF n # 0 THEN "dead" ELSE "remove"
             /\ call' = ThreadCall("sell", calls, n)
    /\ UNCHANGED <<order_record, stored, active, finished, min_price, max_price,
                   swaps, closes, threads, seen, ticked, token, front>>

\* OrderWatcher.remove_order: db.connect() is outside the try, so it raising
\* ends the thread; a failing delete is logged, not raised.
RemoveOrder ==
    /\ pc = "remove"
    /\ \E n \in 0..1, deleted \in BOOLEAN :
         /\ stored' = (stored /\ ~(n = 0 /\ deleted))
         /\ pc' = IF n # 0 THEN "dead" ELSE "finish"
         /\ call' = ThreadCall("remove_order", <<Db("connect")>>, n)
    /\ UNCHANGED <<order_record, active, finished, min_price, max_price,
                   sent, swaps, closes, threads, seen, ticked, token, front>>

\* "self.finished = True", the last statement of buy() and sell()
Finish ==
    /\ pc = "finish"
    /\ finished' = TRUE
    /\ pc' = "done"
    /\ call' = ThreadCall("finish", <<>>, 0)
    /\ UNCHANGED <<order_record, stored, active, min_price, max_price,
                   sent, swaps, closes, threads, seen, ticked, token, front>>

-----------------------------------------------------------------------------
Next ==
    \/ PriceUpdate
    \/ BuySwap \/ BuyFailed \/ BuyRecord \/ BuyReport
    \/ SellSwap \/ SellFailed \/ SellReport
    \/ RemoveOrder \/ Finish

Spec == Init /\ [][Next]_vars

\* The steps of the execution thread.
Thread ==
    \/ BuySwap \/ BuyFailed \/ BuyRecord \/ BuyReport
    \/ SellSwap \/ SellFailed \/ SellReport
    \/ RemoveOrder \/ Finish

\* A started thread is scheduled until it ends: every external call returns
\* or raises.
FairSpec == Spec /\ WF_vars(Thread)

-----------------------------------------------------------------------------
(* The token and the front end's edits (conversations/edittoken.py), which  *)
(* run in the dispatcher's threads, concurrently with buy().                *)

\* Number of commands the user gives that write to the database: the edits
\* of the token and, in the buy/sell conversation, the creation of an order.
MaxEdits == 1

\* The commands of that kind given so far.
Edits == Cardinality({i \in 1..Len(log) : log[i][1] # "buy"})

\* What an edit command leaves: db.connect() failing changes nothing, a
\* failing save() leaves the record object assigned and the row as it was.
EditOutcomes == {"saved", "save_failed", "connect_failed"}

\* When the write fails the handler is left by an exception (the KeyError
\* of its finally block, see CommandEditTokenSlippage).
EditCall(op, outcome) ==
    [op |-> op, price |-> 0, active |-> active, raised |-> (outcome # "saved"),
     fault |-> IF outcome = "saved" THEN "none" ELSE "db"]

\* EditTokenConversation.command_edittoken_buyprice
EditBuyPrice ==
    /\ Edits < MaxEdits
    /\ \E v \in EditPrices, outcome \in EditOutcomes :
         LET written == [token_record EXCEPT !.effective_buy_price =
                            StoredBuyPrice(v)]
         IN  /\ token_record' = IF outcome = "connect_failed"
                                 THEN token_record ELSE written
             /\ token_row' = IF outcome = "saved" THEN written ELSE token_row
             /\ log' = Append(log, <<"buyprice", outcome, v>>)
             /\ call' = EditCall("edittoken_buyprice", outcome)
    /\ UNCHANGED <<order_record, stored, active, finished, min_price, max_price,
                   pc, sent, swaps, closes, threads, seen, ticked, frame, front>>

\* EditTokenConversation.command_edittoken_slippage
EditSlippage ==
    /\ Edits < MaxEdits
    /\ \E slippage \in Slippages, outcome \in EditOutcomes :
         LET written == [token_record EXCEPT !.default_slippage = slippage]
         IN  /\ token_record' = IF outcome = "connect_failed"
                                 THEN token_record ELSE written
             /\ token_row' = IF outcome = "saved" THEN written ELSE token_row
             /\ log' = Append(log, <<"slippage", outcome, slippage>>)
             /\ call' = EditCall("edittoken_slippage", outcome)
    /\ UNCHANGED <<order_record, stored, active, finished, min_price, max_price,
                   pc, sent, swaps, closes, threads, seen, ticked, frame, front>>

\* Orders at market price without trailing stop: they fire on their first
\* nonzero price.
MarketOrders ==
    {r \in OrderRecords : r.limit_price = None /\ r.trailing_stop = None}

TokenInit == InitFrom(MarketOrders, BuyPrices)

\* Price updates of an order that already fired change nothing of the
\* watcher and are left out here.
TokenNext ==
    \/ active /\ PriceUpdate
    \/ Thread
    \/ EditBuyPrice
    \/ EditSlippage

TokenSpec == TokenInit /\ [][TokenNext]_vars

-----------------------------------------------------------------------------
(* The bot is stopped and started again: TradeBot.__init__ builds the       *)
(* watchers from the tables, OrderWatcher.__init__ from an order record.    *)

\* Number of times the bot is started again.
MaxRestarts == 1

Restarts == Cardinality({i \in 1..Len(log) : log[i][1] = "restart"})

\* The process stops, wherever its threads are, and the bot starts again:
\* the objects and threads of the old process are gone, the tables and what
\* was sent and submitted stay.  An order whose record is still stored gets a
\* new OrderWatcher (active, not finished, no watermark), and the token is
\* read from its row; an order without a record has no watcher.  The front
\* end, which is not used here, is as at the first start.
Restart ==
    /\ Restarts < MaxRestarts
    /\ active' = stored
    /\ finished' = ~stored
    /\ min_price' = None
    /\ max_price' = None
    /\ pc' = "none"
    /\ frame' = None
    /\ token_record' = token_row
    /\ log' = Append(log, <<"restart", IF stored THEN "loaded" ELSE "absent">>)
    /\ seen' = {}
    /\ ticked' = FALSE
    /\ call' = [op |-> "restart", price |-> 0, active |-> active,
                raised |-> FALSE, fault |-> "none"]
    /\ UNCHANGED <<order_record, stored, token_row, sent, swaps, closes,
                   threads, front>>

RestartInit == InitFrom(MarketOrders, {Some(<<1, 2>>)})

RestartNext ==
    \/ active /\ PriceUpdate
    \/ Thread
    \/ Restart

RestartSpec == RestartInit /\ [][RestartNext]_vars

-----------------------------------------------------------------------------
(* Properties *)

\* The fields of the watcher a price update may touch, and what it may cause.
watcher == <<active, finished, min_price, max_price, sent, closes, threads,
             pc, swaps, stored>>

\* The step is a price_update call on an active order with a nonzero price.
Evaluated ==
    call'.op = "price_update" /\ active /\ call'.price # 0

\* The step fires the order: close() runs, so active becomes false, and the
\* execution thread is started once the "attempting" notification is sent
\* (send_message raising leaves close() before start_in_thread).
Fires ==
    /\ active' = FALSE
    /\ closes' = closes + 1
    /\ IF call'.raised THEN threads' = threads
                       ELSE threads' = threads + 1 /\ pc' \in {"buy", "sell"}

\* The step leaves the watcher as it was.
NoEffect == UNCHANGED watcher

\* The trailing buy rule of C7 on one price update.
TrailingBuyRule ==
    LET p == call'.price
        T == Val(order_record.trailing_stop)
        lim == IF order_record.limit_price = None
               THEN p ELSE Val(order_record.limit_price)
    IN  /\ IF min_price = None
           THEN IF p > lim THEN NoEffect ELSE min_price' = Some(p)
           ELSE LET m == Val(min_price)
                IN  IF p < m
                    THEN min_price' = Some(p) /\ active'
                    ELSE /\ min_price' = min_price
                         /\ (~active') <=> ((p - m) * 100 > T * m)
        /\ (order_record.limit_price = None /\ T = 10) =>
             /\ (min_price = None /\ p = 100)
                  => (min_price' = Some(100) /\ active')
             /\ (min_price = Some(100) /\ p = 80)
                  => (min_price' = Some(80) /\ active')
             /\ (min_price = Some(80) /\ p = 85)
                  => (min_price' = Some(80) /\ active')
             /\ (min_price = Some(80) /\ p = 92)
                  => ~active'

\* The trailing sell rule of C8 on one price update.
TrailingSellRule ==
    LET p == call'.price
        T == Val(order_record.trailing_stop)
        lim == IF order_record.limit_price = None
               THEN p ELSE Val(order_record.limit_price)
    IN  IF max_price = None
        THEN IF p < lim THEN NoEffect ELSE max_price' = Some(p)
        ELSE LET m == Val(max_price)
             IN  IF p > m
                 THEN max_price' = Some(p) /\ active'
                 ELSE /\ max_price' = max_price
                      /\ (~active') <=> ((m - p) * 100 > T * m)

Min(S) == CHOOSE x \in S : \A y \in S : x <= y
Max(S) == CHOOSE x \in S : \A y \in S : x >= y

\* C1: for every sequence of price updates close() runs at most once: at
\* most one execution thread is started and net.buy_tokens / net.sell_tokens
\* is called at most once, whether the swap succeeds or fails.
C1_CloseAtMostOnce ==
    closes <= 1 /\ threads <= 1 /\ Len(swaps) <= 1

\* A nonzero price is delivered after the order fired and its swap was made.
C1_Witness ==
    /\ closes = 1 /\ threads = 1 /\ Len(swaps) = 1
    /\ call.op = "price_update" /\ call.price # 0

\* C2: the swap an order executes matches its direction, for every value
\* the type field can hold: a buy order calls buy_tokens and never
\* sell_tokens, a sell order calls sell_tokens.
C2_SwapMatchesDirection ==
    \A i \in 1..Len(swaps) :
        /\ IsBuyOrder(order_record) => swaps[i] = "buy_tokens"
        /\ IsSellOrder(order_record) => swaps[i] = "sell_tokens"

\* C3: once active is false every price_update call is a no-op: active,
\* min_price, max_price and finished are unchanged, no notification is sent
\* and no execution is started, for any price.
C3_InactiveNoOp ==
    [][(call'.op = "price_update" /\ ~active) => NoEffect]_vars

\* A nonzero price was delivered to an order that had already fired.
C3_Witness ==
    ~active /\ call.op = "price_update" /\ ~call.active /\ call.price # 0

C5_BelowLimitFires ==
    [][(Evaluated /\ order_record.trailing_stop = None
        /\ ~order_record.above /\ order_record.limit_price # None)
       => IF call'.price <= Val(order_record.limit_price)
          THEN Fires ELSE NoEffect]_vars

\* A BELOW limit order fired at a price equal to its limit.
C5_Witness ==
    /\ order_record.trailing_stop = None /\ ~order_record.above
    /\ order_record.limit_price # None
    /\ call.op = "price_update" /\ call.active
    /\ call.price = Val(order_record.limit_price)
    /\ ~active /\ closes = 1

\* C6: an active non-trailing SELL order with comparison ABOVE and a limit
\* price fires on a nonzero price p if and only if p >= limit_price.
C6_TakeProfitFires ==
    [][(Evaluated /\ IsSellOrder(order_record)
        /\ order_record.trailing_stop = None
        /\ order_record.above /\ order_record.limit_price # None)
       => IF call'.price >= Val(order_record.limit_price)
          THEN Fires ELSE NoEffect]_vars

\* A take-profit order fired at a price equal to its limit.
C6_Witness ==
    /\ IsSellOrder(order_record) /\ order_record.trailing_stop = None
    /\ order_record.above /\ order_record.limit_price # None
    /\ call.op = "price_update" /\ call.active
    /\ call.price = Val(order_record.limit_price)
    /\ ~active /\ closes = 1

\* C7: a BUY/BELOW order with trailing_stop_percent T: while no watermark
\* exists and the price is above the effective limit nothing changes; the
\* first nonzero price <= effective limit arms min_price at that price;
\* afterwards a price below the watermark lowers it and does not fire, and a
\* price p >= watermark fires iff (p/watermark - 1)*100 > T.  With no limit
\* and T = 10 the prices 10, 8, 8.5, 9.2 arm at 10, lower the watermark to
\* 8, do not fire at 8.5 and fire at 9.2.  Stated for the type value the
\* watcher itself takes for a buy and for updates whose notifications are
\* delivered; the claim covers more.
C7_TrailingBuy ==
    [][(Evaluated /\ ~call'.raised /\ order_record.type = TypeBuy
        /\ ~order_record.above /\ order_record.trailing_stop # None)
       => TrailingBuyRule]_vars

\* The same rule, worked example included, holds of every such order whose
\* trailing_stop_percent is not 0.
TrailingBuyNonzero ==
    [][(Evaluated /\ ~call'.raised /\ order_record.type = TypeBuy
        /\ ~order_record.above /\ order_record.trailing_stop # None
        /\ order_record.trailing_stop # Some(0))
       => TrailingBuyRule]_vars

\* C8: a SELL/ABOVE order with trailing_stop_percent T: before arming, a
\* price below the effective limit changes nothing; the first nonzero price
\* >= effective limit arms max_price at that price; afterwards a price above
\* the watermark raises it and does not fire, and a price p <= watermark
\* fires iff (1 - p/watermark)*100 > T.  Stated for updates whose
\* notifications are delivered; the claim covers more.
C8_TrailingSell ==
    [][(Evaluated /\ ~call'.raised /\ IsSellOrder(order_record)
        /\ order_record.above /\ order_record.trailing_stop # None)
       => TrailingSellRule]_vars

\* The same rule holds of every such order whose trailing_stop_percent is
\* not 0.
TrailingSellNonzero ==
    [][(Evaluated /\ ~call'.raised /\ IsSellOrder(order_record)
        /\ order_record.above /\ order_record.trailing_stop # None
        /\ order_record.trailing_stop # Some(0))
       => TrailingSellRule]_vars

\* C9: every order whose trailing_stop_percent is set to an integer,
\* including 0, is evaluated in trailing mode: it arms a watermark once its
\* limit condition is met and fires once the reversal from the watermark
\* exceeds trailing_stop_percent; only an order whose trailing_stop_percent
\* is absent is evaluated as a non-trailing order, so an order with the
\* percent set never fires without a watermark and one without it never
\* arms.  Stated for the two trailing paths the watcher has (type 'Kupit'
\* BELOW, a sell type ABOVE) and for delivered notifications.
C9_TrailingWhenSet ==
    [][(Evaluated /\ ~call'.raised)
       => LET p == call'.price
              lim == IF order_record.limit_price = None
                     THEN p ELSE Val(order_record.limit_price)
              set == order_record.trailing_stop # None
              T == Val(order_record.trailing_stop)
              buyPath == order_record.type = TypeBuy /\ ~order_record.above
              sellPath == IsSellOrder(order_record) /\ order_record.above
          IN  /\ (set /\ buyPath /\ min_price = None /\ p <= lim)
                   => min_price' = Some(p)
              /\ (set /\ sellPath /\ max_price = None /\ p >= lim)
                   => max_price' = Some(p)
              /\ (set /\ buyPath /\ min_price # None
                  /\ p >= Val(min_price)
                  /\ (p - Val(min_price)) * 100 > T * Val(min_price))
                   => ~active'
              /\ (set /\ sellPath /\ max_price # None
                  /\ p <= Val(max_price)
                  /\ (Val(max_price) - p) * 100 > T * Val(max_price))
                   => ~active'
              /\ (set /\ ~active') => (min_price' # None \/ max_price' # None)
              /\ ~set => (min_price' = None /\ max_price' = None)]_vars

\* C10: while a trailing order is armed and active its watermark only
\* improves: min_price never increases and max_price never decreases across
\* price updates, and the watermark equals the lowest (min_price) or the
\* highest (max_price) nonzero price observed since the order armed.
C10_WatermarkImproves ==
    /\ [](active /\ min_price # None => Val(min_price) = Min(seen))
    /\ [](active /\ max_price # None => Val(max_price) = Max(seen))
    /\ [][/\ (active' /\ min_price # None)
               => (min_price' # None /\ Val(min_price') <= Val(min_price))
          /\ (active' /\ max_price # None)
               => (max_price' # None /\ Val(max_price') >= Val(max_price))]_vars

\* An armed buy order is still active after its watermark was lowered twice.
C10_Witness ==
    /\ active /\ min_price # None /\ Cardinality(seen) >= 3
    /\ Val(min_price) = Min(seen)

\* C11: in every reachable state an order with trailing_stop_percent unset
\* has no watermark (min_price and max_price are both absent); min_price is
\* only ever set on BUY orders and max_price only on SELL orders, so at most
\* one of them is set.
C11_WatermarkOnlyWhenTrailing ==
    /\ order_record.trailing_stop = None
         => (min_price = None /\ max_price = None)
    /\ min_price # None => IsBuyOrder(order_record)
    /\ max_price # None => IsSellOrder(order_record)
    /\ ~(min_price # None /\ max_price # None)

\* An order without trailing_stop_percent went through price updates, fired
\* and finished its execution.
C11_Witness ==
    /\ order_record.trailing_stop = None /\ order_record.limit_price # None
    /\ Cardinality(seen) = 0 /\ ticked /\ finished
    /\ min_price = None /\ max_price = None

\* C12: in every reachable state an order with finished=true has no
\* persisted order record left, whatever the outcome of the swap and of the
\* database delete performed by remove_order; finished is set only after the
\* record deletion.  Stated for the type values the watcher itself tests;
\* the claim covers more.
C12_FinishedMeansRemoved ==
    (finished /\ order_record.type \in {TypeBuy, TypeSell}) => ~stored

\* What holds instead: finished is set only once remove_order has returned,
\* whether or not its delete succeeded.
FinishedAfterRemoveOrder ==
    [][(~finished /\ finished') => pc = "finish"]_vars

\* The notification was delivered to the chat.
HasSent(text) == \E i \in 1..Len(sent) : sent[i] = text

\* C13: when the swap of a fired order returns failure (buy or sell), the
\* order sends a failure notification carrying the reason, deletes its
\* persisted record and sets finished=true; it never becomes active again
\* and the swap is not retried.  Stated for the executions whose failure
\* notification was delivered and that ran to their end; the claim covers
\* more.
C13_FailedSwapEnds ==
    (HasSent("failed") /\ pc = "done")
        => (finished /\ ~stored /\ ~active /\ Len(swaps) = 1)

\* What holds of a failed swap: once the failure notification is delivered
\* the order is never active again, the swap is not repeated, and
\* remove_order is the next thing the execution does.
FailedSwapNoRetry ==
    /\ [](HasSent("failed") => (~active /\ Len(swaps) = 1
                                  /\ pc \in {"remove", "finish", "done", "dead"}))
    /\ [][~active => ~active']_vars

\* C14: every order that fires (active becomes false) eventually reaches
\* finished=true with its record deletion performed, for both a successful
\* and a failed swap result, when the execution thread is scheduled fairly;
\* no fired order stays forever in the state active=false, finished=false.
C14_FiredEventuallyFinished ==
    (~active) ~> finished

\* What holds instead: a fired order eventually finishes unless close() left
\* before starting the thread or the thread was ended by an exception.
FiredFinishesOrDies ==
    (~active) ~> (finished \/ pc = "dead" \/ (pc = "none" /\ threads = 0))

\* C15: if a call to the network collaborator made during buy() or sell()
\* (balance read, swap submission, approval check, approval, base-currency
\* price read) raises an exception, the order ends like a failed execution:
\* the user is notified, the order record is deleted and finished becomes
\* true.  Stated as what that needs first: the execution goes on after the
\* exception.
C15_NetworkExceptionIsFailure ==
    [][(call'.op \in {"buy", "sell"} /\ call'.fault = "net")
       => pc' # "dead"]_vars

\* What holds instead: a raising network call ends the thread; no failure
\* notification is sent and the record and finished stay as they were.
NetworkExceptionEndsThread ==
    [][(call'.op \in {"buy", "sell"} /\ call'.fault = "net")
       => (pc' = "dead" /\ stored' = stored /\ finished' = finished
           /\ ~HasSent("failed")')]_vars

\* C16: a failing notification (send_message raising) is never propagated
\* and never changes what an order does: a trailing order whose arming
\* notification fails still records its watermark, a firing order whose
\* "attempting" notification fails still starts its execution, and an
\* execution whose result notification fails still deletes its record and
\* sets finished=true (stated as: the execution goes on).
C16_NotificationFailureHarmless ==
    [][call'.fault = "send"
       => /\ (call'.op = "price_update" /\ closes' = closes)
               => (min_price' # None \/ max_price' # None)
          /\ (call'.op = "price_update" /\ closes' = closes + 1)
               => threads' = threads + 1
          /\ call'.op \in {"buy", "sell"} => pc' # "dead"]_vars

\* What holds instead: a failed arming notification leaves the order active
\* without a new watermark, a failed "attempting" notification leaves it
\* inactive with no execution started, and a failed notification inside the
\* execution ends the thread with finished and the record as they were.
NotificationFailurePropagates ==
    [][call'.fault = "send"
       => /\ (call'.op = "price_update" /\ closes' = closes)
               => (active' /\ min_price' = min_price /\ max_price' = max_price)
          /\ (call'.op = "price_update" /\ closes' = closes + 1)
               => (~active' /\ threads' = threads /\ pc' = pc)
          /\ call'.op \in {"buy", "sell"}
               => (pc' = "dead" /\ finished' = finished /\ stored' = stored)]_vars

\* C17: a price update with price 0 on an active order is a silent skip:
\* active, min_price, max_price and finished are unchanged, no notification
\* is sent and no execution is started; the watcher is left exactly as it
\* was, so the order evaluates later nonzero prices as it would have.
C17_ZeroPriceSkipped ==
    [][(call'.op = "price_update" /\ active /\ call'.price = 0)
       => (NoEffect /\ active' /\ ~call'.raised)]_vars

\* An armed, active trailing order was handed the price 0.
C17_Witness ==
    /\ call.op = "price_update" /\ call.price = 0 /\ call.active
    /\ active /\ (min_price # None \/ max_price # None)

\* The step is the buy-price write of buy() after a successful swap, with
\* the record object assigned.
BuyPriceWritten ==
    /\ pc = "buy_ok" /\ log' # log
    /\ log'[Len(log')][1] = "buy"
    /\ log'[Len(log')][2] \in {"saved", "save_failed"}

\* The weighted average of C18, by cross-multiplication: with B the balance
\* read before the swap, P the prior price, R the tokens received and
\* E = spent / R, the new price is (B*P + R*E)/(B + R), or E without a
\* prior price; it is in the row too when save() succeeded.
WeightedAverageWritten ==
    LET f == Val(frame)
        B == f.balance_before
        R == f.tokens_out
        P == f.buy_price_before
        new == Val(token_record'.effective_buy_price)
    IN  /\ token_record'.effective_buy_price # None
        /\ P = None => new[1] * R = get_human_amount * new[2]
        /\ P # None =>
             new[1] * (B + R) * Val(P)[2]
               = (B * Val(P)[1] + get_human_amount * Val(P)[2]) * new[2]
        /\ log'[Len(log')][2] = "saved" => token_row' = token_record'

\* The step is the write of the worked example: B = 100, P = 0.5, R = 50,
\* E = 40/50 = 0.8.
WorkedExampleWritten ==
    /\ BuyPriceWritten
    /\ Val(frame) = [balance_before |-> 100, buy_price_before |-> Some(<<1, 2>>),
                     tokens_out |-> 50]

\* C18 as claimed: after a successful BUY that received R tokens at
\* effective price E = spent_amount / R, the token's effective_buy_price
\* becomes (B*P + R*E)/(B + R) when a prior price P existed, B being the
\* balance read before the swap, and E when none existed; for B=100, P=0.5,
\* R=50, E=0.8 the result is 80/150 = 0.5333...
C18_WeightedBuyPrice ==
    [][/\ BuyPriceWritten => WeightedAverageWritten
       /\ WorkedExampleWritten
            => token_record'.effective_buy_price = Some(<<8, 15>>)]_vars

\* C18 as amended: the same rule, and for B=100, P=0.5, R=50, E=0.8 the
\* result is (50 + 40)/150 = 0.6.
C18_WeightedBuyPriceExample ==
    [][/\ BuyPriceWritten => WeightedAverageWritten
       /\ WorkedExampleWritten
            => token_record'.effective_buy_price = Some(<<3, 5>>)]_vars

\* The buy of the worked example is written and saved.
C18_Witness ==
    /\ pc = "buy_report" /\ frame # None
    /\ Val(frame) = [balance_before |-> 100, buy_price_before |-> Some(<<1, 2>>),
                     tokens_out |-> 50]
    /\ log = <<<<"buy", "saved">>>>
    /\ token_row.effective_buy_price = Some(<<3, 5>>)

\* The token row after the buy and the edit e applied one after the other,
\* in either order: the buy computes its average from the price it finds.
SerialOutcomes(e, before) ==
    LET f == Val(frame)
        avg(prior) == BuyPriceAfter(prior, f.balance_before, f.tokens_out)
    IN  IF e[1] = "buyprice"
        THEN {[effective_buy_price |-> StoredBuyPrice(e[3]),
               default_slippage |-> token_row.default_slippage],
              [effective_buy_price |-> avg(StoredBuyPrice(e[3])),
               default_slippage |-> token_row.default_slippage]}
        ELSE {[effective_buy_price |-> avg(before), default_slippage |-> e[3]]}

\* C19: a completing buy() of an order and a concurrent front-end edit of
\* the same token's effective buy price or default slippage are serialized:
\* in every interleaving the final persisted token state equals the result
\* of applying the two mutations in some sequential order, so no update is
\* lost and the weighted average is never computed from a prior price that
\* the edit has already replaced.  Stated for one saved buy and one saved
\* edit, once both are done.
C19_BuyAndEditSerialized ==
    \A i, j \in 1..Len(log) :
        (/\ Len(log) = 2 /\ i # j /\ pc \in {"buy_report", "remove", "finish", "done"}
         /\ log[i] = <<"buy", "saved">>
         /\ log[j][1] # "buy" /\ log[j][2] = "saved")
        => token_row \in SerialOutcomes(log[j], Val(frame).buy_price_before)

\* What holds instead: the buy writes the average computed from the price
\* it read before the swap, whatever the record holds by then.
BuyWritesFromStaleRead ==
    [][BuyPriceWritten
       => token_record'.effective_buy_price
            = BuyPriceAfter(Val(frame).buy_price_before,
                            Val(frame).balance_before, Val(frame).tokens_out)]_vars

\* The step changes the token's effective buy price, in the record object
\* or in the row.
BuyPriceChanges ==
    \/ token_record'.effective_buy_price # token_record.effective_buy_price
    \/ token_row'.effective_buy_price # token_row.effective_buy_price

\* C20 as claimed: a token's effective_buy_price is mutated only by a
\* successfully completed BUY order, through the weighted-average update;
\* no other operation changes it: price updates, SELL executions
\* (successful or failed) and failed BUY executions leave it unchanged.
C20_OnlyBuyChangesBuyPrice ==
    [][BuyPriceChanges => (BuyPriceWritten /\ WeightedAverageWritten)]_vars

\* C20 as amended: the effective buy price takes a new value only by the
\* weighted-average update of a BUY whose swap succeeded and by the front
\* end's edit-buy-price command; the row changes only when the token record
\* is saved, to the value the record holds. Price updates, SELL executions
\* and failed BUY executions change neither.
C20_BuyOrEditChangesBuyPrice ==
    [][/\ token_record'.effective_buy_price # token_record.effective_buy_price
          => \/ BuyPriceWritten /\ WeightedAverageWritten
             \/ /\ call'.op = "edittoken_buyprice"
                /\ token_record'.effective_buy_price
                     = StoredBuyPrice(log'[Len(log')][3])
       /\ token_row'.effective_buy_price # token_row.effective_buy_price
          => /\ log' # log /\ log'[Len(log')][2] = "saved"
             /\ token_row' = token_record']_vars

\* A sell and, on another order, a failed buy ran to their end on a token
\* with a buy price, which is still what it was.
C20_Witness ==
    /\ finished /\ log = <<>> /\ Len(swaps) = 1
    /\ swaps[1] = "sell_tokens" \/ HasSent("failed")
    /\ token_record.effective_buy_price = Some(<<1, 2>>)
    /\ token_row = token_record

-----------------------------------------------------------------------------
(* C22: a BUY order with comparison ABOVE *)

\* C22: a BUY order whose comparison is ABOVE has no trigger path: whatever
\* the prices delivered, its limit price and its trailing stop, it never
\* fires, never sets a watermark, sends no notification and stays active.
C22_BuyAboveNeverFires ==
    (IsBuyOrder(order_record) /\ order_record.above)
      => /\ active /\ ~finished
         /\ closes = 0 /\ threads = 0 /\ pc = "none"
         /\ min_price = None /\ max_price = None
         /\ sent = <<>> /\ swaps = <<>>

\* A trailing BUY order ABOVE its limit has just been given a nonzero price
\* below that limit, which would fire or arm the same order with BELOW.
C22_Witness ==
    /\ IsBuyOrder(order_record) /\ order_record.above
    /\ order_record.limit_price # None
    /\ TrailingSet(order_record.trailing_stop)
    /\ call.op = "price_update" /\ call.price # 0
    /\ call.price <= Val(order_record.limit_price)
    /\ active

-----------------------------------------------------------------------------
(* C23: firing and the polling loop *)

\* C23: firing does not block the polling loop: the price update that fires
\* the order returns with active false and the execution thread started at
\* its first statement, the swap not yet called and the order not finished,
\* so that later price updates are delivered while buy() or sell() runs.
C23_FiringDoesNotBlock ==
    [][(call'.op = "price_update" /\ active /\ ~active' /\ ~call'.raised)
       => /\ threads' = threads + 1
          /\ pc' \in {"buy", "sell"}
          /\ swaps' = swaps /\ stored' = stored /\ ~finished']_vars

\* A price update was delivered after the order fired and returned while
\* the thread still has the swap ahead of it.
C23_Witness ==
    /\ pc \in {"buy", "sell"} /\ swaps = <<>>
    /\ call.op = "price_update" /\ ~call.active /\ call.price # 0
    /\ ~active /\ ~finished

-----------------------------------------------------------------------------
(* C28: the approval after a BUY *)

\* The number of calls named kind/name among the calls made before call n
\* raised (n = 0: none raised), the raising call included.
RECURSIVE CallsMade(_, _, _)
CallsMade(calls, n, c) ==
    IF calls = <<>> THEN 0
    ELSE LET k == Len(calls)
             rest == CallsMade(SubSeq(calls, 1, k - 1), n, c)
         IN  IF calls[k] = c /\ (n = 0 \/ k <= n) THEN rest + 1 ELSE rest

\* The step is the report of buy() after a successful swap.
Reports == pc = "buy_report" /\ pc' # "buy_report"

\* C28: after a successful BUY swap the approval is attempted exactly once
\* if and only if the token is not approved yet, its result is reported and
\* it is not retried, and whatever the result the order's record is deleted
\* and finished is set.  Stated for the executions that reported the
\* approval's result: the thread then ends with the record deleted and the
\* order finished, and the approval was announced once.
C28_ApprovalThenFinished ==
    (order_record.type = TypeBuy
       /\ (HasSent("approved") \/ HasSent("not_approved"))
       /\ pc \in {"done", "dead"})
      => /\ finished /\ ~stored
         /\ Len(SelectSeq(sent, LAMBDA t : t = "approving")) = 1

\* What holds instead: the report asks is_approved once; when the answer is
\* no and nothing raised before, approve is called once and its result is
\* sent; when the answer is yes approve is not called; the step never runs
\* twice, and the record is deleted and finished set only if none of these
\* calls, nor db.connect and the delete of remove_order, fails.
ApprovalAttemptedOnce ==
    [][Reports
       => LET made(c) == CallsMade(call'.calls, call'.n, c)
          IN  /\ made(Net("approve")) <= 1
              /\ call'.approved => made(Net("approve")) = 0
              /\ (~call'.approved /\ ~call'.raised)
                   => /\ made(Net("approve")) = 1
                      /\ HasSent("approved")' # HasSent("not_approved")'
              /\ ~call'.raised => pc' = "remove"
              /\ call'.raised => pc' = "dead"
              /\ UNCHANGED <<stored, finished, swaps>>]_vars

-----------------------------------------------------------------------------
(* C29: the buy price could not be persisted *)

\* The buy-price write of buy() was attempted and did not reach the row.
BuyPriceNotPersisted ==
    /\ log # <<>> /\ log[Len(log)][1] = "buy"
    /\ log[Len(log)][2] # "saved"

\* C29: if persisting the updated effective buy price fails after a
\* successful BUY swap, the failure is reported to the chat and the order
\* still completes: its record is deleted and finished becomes true, so it
\* cannot fire a second time.  On the order's last state, for the code's own
\* buy type.
C29_PersistFailureStillCompletes ==
    (order_record.type = TypeBuy /\ BuyPriceNotPersisted
       /\ pc \in {"done", "dead"})
      => /\ HasSent("buy_price_not_saved")
         /\ finished /\ ~stored
         /\ ~active /\ closes = 1

\* What holds instead: the order never fires a second time, and when the
\* failure is raised inside the try and every later call succeeds, it is
\* reported and the thread goes on to the report.
PersistFailureNoSecondFire ==
    /\ BuyPriceNotPersisted => (~active /\ closes = 1 /\ Len(swaps) = 1)
    /\ (BuyPriceNotPersisted /\ pc # "dead"
          /\ log[Len(log)][2] \in {"save_failed", "atomic_failed"})
         => HasSent("buy_price_not_saved")

-----------------------------------------------------------------------------
(* C30: one notification per terminal outcome *)

\* The number of notifications with one of the given texts.
Count(msgs, texts) == Len(SelectSeq(msgs, LAMBDA t : t \in texts))

\* The notifications the step delivered.
NewlySent == SubSeq(sent', Len(sent) + 1, Len(sent'))

\* The step of the execution thread in which the swap or a later call
\* failed: the swap returned failure, or a call raised.
ExecutionFails ==
    \/ pc \in {"buy_failed", "sell_failed"} /\ pc' # pc
    \/ pc \notin {"none", "dead"} /\ pc' = "dead"

\* C30: every terminal outcome of an order (fired, execution failed, token
\* approved, token not approved) produces exactly one notification to the
\* chat, and a skipped tick (price 0) produces none.  Stated for the orders
\* whose type is one of the code's own literals.
C30_OneNotificationPerOutcome ==
    [][order_record.type \in {TypeBuy, TypeSell}
       => /\ closes' = closes + 1
             => Count(NewlySent, {"attempt_buy", "attempt_sell"}) = 1
          /\ ExecutionFails => Count(NewlySent, {"failed"}) = 1
          /\ (Reports /\ ~call'.approved
                /\ CallsMade(call'.calls, call'.n, Net("approve")) = 1)
             => Count(NewlySent, {"approved", "not_approved"}) = 1
          /\ (call'.op = "price_update" /\ call'.price = 0)
             => sent' = sent]_vars

\* What holds instead: a step in which no call raises sends exactly one
\* notification of the outcome it reaches, and a price of 0 sends none; a
\* step in which a call raises sends no notification of its outcome, and
\* an execution that ends by an exception is not notified at all.
OneNotificationUnlessRaised ==
    [][/\ (closes' = closes + 1 /\ ~call'.raised)
          => Count(NewlySent, {"attempt_buy", "attempt_sell"}) = 1
       /\ (pc \in {"buy_failed", "sell_failed"} /\ pc' # pc /\ ~call'.raised)
          => NewlySent = <<"failed">>
       /\ (Reports /\ ~call'.approved /\ ~call'.raised)
          => Count(NewlySent, {"approved", "not_approved"}) = 1
       /\ (call'.op = "price_update" /\ call'.price = 0) => sent' = sent
       /\ (pc \notin {"none", "dead"} /\ pc' = "dead")
          => Count(NewlySent, {"failed", "approved", "not_approved"}) = 0
       /\ Count(sent', {"attempt_buy", "attempt_sell"}) <= 1
       /\ Count(sent', {"failed"}) <= 1
       /\ Count(sent', {"approved", "not_approved"}) <= 1]_vars

-----------------------------------------------------------------------------
(* The Telegram front end: updates and the check_chat_id wrapper            *)
(* (utils/generic.py), which decorates every handler.                       *)

\* config.secrets.admin_chat_id and the id of some other chat.
admin_chat_id == "admin"
Chats == {admin_chat_id, "other"}

\* An update as the wrapper reads it: a message with text, a callback query
\* (update.message is None) or an edited message (update.message and
\* update.callback_query are None), which command and message handlers
\* receive too.
TextUpdate(chat, text) ==
    [effective_chat |-> Some(chat), message |-> Some([text |-> Some(text)]),
     callback_query |-> None, user_data |-> TRUE]
CallbackUpdate(chat, data) ==
    [effective_chat |-> Some(chat), message |-> None,
     callback_query |-> Some(data), user_data |-> TRUE]
EditedUpdate(chat) ==
    [effective_chat |-> Some(chat), message |-> None,
     callback_query |-> None, user_data |-> TRUE]

\* Mutant: the chat id is not compared.
check_chat_id_open(u) ==
    IF u.effective_chat = None THEN "return"
    ELSE IF ~u.user_data THEN "return"
    ELSE IF u.message = None /\ u.callback_query = None THEN "return"
    ELSE IF u.message # None /\ Val(u.message).text = None
              /\ u.callback_query = None THEN "return"
    ELSE "func"

\* check_chat_id, after callback_query.answer(): "return" for the updates it
\* drops, "func" when the handler's body is to run, "refuse" otherwise.
check_chat_id(u) ==
    IF u.effective_chat = None THEN "return"
    ELSE IF ~u.user_data THEN "return"
    ELSE IF u.message = None /\ u.callback_query = None THEN "return"
    ELSE IF u.message # None /\ Val(u.message).text = None
              /\ u.callback_query = None THEN "return"
    ELSE IF Val(u.effective_chat) = admin_chat_id THEN "func"
    ELSE "refuse"

\* The calls the wrapper makes itself: the answer to a callback query and,
\* when it refuses, the message to the admin chat and the one to the
\* requesting chat.
WrapperCalls(u) ==
    (IF u.callback_query # None THEN <<Net("answer")>> ELSE <<>>)
    \o (IF check_chat_id(u) = "refuse"
        THEN <<Send(<<admin_chat_id, "prevented">>),
               Send(<<Val(u.effective_chat), "not_public">>)>>
        ELSE <<>>)

\* What a handler call did, for the properties: the handler, the update,
\* whether its body ran, the messages delivered, whether a call raised and
\* the state returned to the conversation handler (None: none returned).
HandlerCall(handler, u, ran, calls, n, returned) ==
    [op |-> handler, price |-> 0, active |-> active, raised |-> (n # 0),
     fault |-> IF n = 0 THEN "none" ELSE calls[n][1],
     update |-> u, ran |-> ran, replies |-> Delivered(calls, n),
     returned |-> returned]

\* A handler call as the dispatcher ends it: when the handler raised, the
\* bot's error_handler sends a message about the exception to the chat of
\* the update, which may fail as well.
HandlerCalls(handler, u, ran, calls, n, returned) ==
    LET c == HandlerCall(handler, u, ran, calls, n, returned)
    IN  IF n = 0 \/ u.effective_chat = None THEN {c}
        ELSE {c, [c EXCEPT !.replies =
                    @ \o <<<<Val(u.effective_chat), "exception">>>>]}

\* The wrapped handler is called with an update for which the body does not
\* run: the wrapper returns None, or raises when one of its calls does.
NotRun(handler, u) ==
    /\ check_chat_id(u) # "func" \/ u.callback_query # None
    /\ \E n \in 0..Len(WrapperCalls(u)) :
         /\ check_chat_id(u) = "func" => n = 1
         /\ call' \in HandlerCalls(handler, u, FALSE, WrapperCalls(u), n, None)
    /\ UNCHANGED <<order_record, stored, active, finished, min_price, max_price,
                   pc, sent, swaps, closes, threads, seen, ticked, token, front>>

\* The body of a wrapped handler may run: the chat is the admin's and the
\* answer to the callback query, if any, did not raise.
Runs(u) == check_chat_id(u) = "func"

\* A conversation handler keeps its state when the handler returns None or
\* raises, and takes the state returned otherwise.
NextState(c, returned) ==
    IF returned = None THEN conv ELSE [conv EXCEPT ![c] = Val(returned)]

-----------------------------------------------------------------------------
(* Decimal(text) and the slippage rule of the add-token and edit-token      *)
(* conversations                                                            *)

\* What the user may type for a slippage: text that is no number, "nan"
\* (which Decimal accepts), and numbers below, inside and above the range.
SlippageTexts == {"abc", "nan", "0.005", "0.01", "0.125", "2", "100", "100.5"}

\* Decimal(text) raises for text that is no number.
DecimalRaises(text) == text = "abc"

\* Decimal("nan") is a NaN, whose comparison with "<" or ">" raises
\* InvalidOperation.
IsNaN(text) == text = "nan"

\* The value of Decimal(text), as a fraction.
DecimalOf(text) ==
    CASE text = "0.005" -> Rat(1, 200)
      [] text = "0.01"  -> Rat(1, 100)
      [] text = "0.12"  -> Rat(3, 25)
      [] text = "0.125" -> Rat(1, 8)
      [] text = "1.00"  -> Rat(1, 1)
      [] text = "2"     -> Rat(2, 1)
      [] text = "2.00"  -> Rat(2, 1)
      [] text = "100"   -> Rat(100, 1)
      [] text = "100.00" -> Rat(100, 1)
      [] text = "100.5" -> Rat(201, 2)

RatLess(x, y) == x[1] * y[2] < y[1] * x[2]

\* "slippage < Decimal('0.01') or slippage > 100"
OutOfRange(x) == RatLess(x, Rat(1, 100)) \/ RatLess(Rat(100, 1), x)

\* f'{slippage:.2f}': two decimals, rounded half to even.
FormatTwo(x) ==
    LET q == (x[1] * 100) \div x[2]
        r == (x[1] * 100) % x[2]
        cents == IF 2 * r > x[2] \/ (2 * r = x[2] /\ q % 2 = 1)
                 THEN q + 1 ELSE q
        frac == cents % 100
    IN  ToString(cents \div 100) \o "."
          \o (IF frac < 10 THEN "0" ELSE "") \o ToString(frac)

\* What the slippage handlers make of a typed text: "unparsable" and
\* "out_of_range" are re-prompted, "raises" leaves the handler by the
\* exception of the comparison, "valid" goes on.
SlippageCheck(text) ==
    IF DecimalRaises(text) THEN "unparsable"
    ELSE IF IsNaN(text) THEN "raises"
    ELSE IF OutOfRange(DecimalOf(text)) THEN "out_of_range"
    ELSE "valid"

-----------------------------------------------------------------------------
(* The add-token conversation (conversations/addtoken.py)                   *)

\* The watcher, its thread and the token's record are left alone.
BackEndUnchanged ==
    UNCHANGED <<order_record, stored, active, finished, min_price, max_price,
                pc, sent, swaps, closes, threads, seen, ticked, token>>

\* "del context.user_data[key]" of a key that is not there: a KeyError.
KeyError(key) == <<"key", key>>

\* A reply to the chat of the update.
Reply(u, text) == Send(<<Val(u.effective_chat), text>>)

\* context.user_data['addtoken'] as command_addtoken creates it.
NewAdd == [address |-> None, icon |-> None, default_slippage |-> None]

\* What the user may send as an address: text that is no address, the
\* address already tracked and a new one.
AddressTexts == {"junk"} \cup Addresses

\* Web3.isAddress
isAddress(text) == text \in Addresses

\* command_addtoken, the entry point: reached when the chat has no add-token
\* conversation under way.
CommandAddToken ==
    \E chat \in Chats, edited \in BOOLEAN :
      LET u == IF edited THEN EditedUpdate(chat) ELSE TextUpdate(chat, "/addtoken")
      IN  /\ chat = admin_chat_id => conv["addtoken"] = END
          /\ \/ NotRun("command_addtoken", u)
             \/ /\ Runs(u)
                /\ \E n \in 0..1 :
                     LET calls == <<Reply(u, "send_address")>>
                         returned == IF n = 0 THEN Some("ADDRESS") ELSE None
                     IN  /\ user_data' = [user_data EXCEPT !["addtoken"] = Some(NewAdd)]
                         /\ conv' = NextState("addtoken", returned)
                         /\ call' \in HandlerCalls("command_addtoken", u, TRUE,
                                                calls, n, returned)
                /\ UNCHANGED <<watchers, token_rows, order_rows, status, scheduler>>
                /\ BackEndUnchanged

\* Mutant: token_exists is not asked.
CommandAddTokenAddress_unchecked ==
    /\ conv["addtoken"] = "ADDRESS"
    /\ \E text \in AddressTexts, edited \in BOOLEAN, abi \in BOOLEAN :
         LET u == IF edited THEN EditedUpdate(admin_chat_id)
                  ELSE TextUpdate(admin_chat_id, text)
             h == "command_addtoken_address"
             add == Val(user_data["addtoken"])
         IN  \/ NotRun(h, u)
             \/ /\ Runs(u) /\ user_data["addtoken"] # None
                /\ IF ~isAddress(text)
                   THEN \E n \in 0..1 :
                          LET calls == <<Reply(u, "invalid_address")>>
                              returned == IF n = 0 THEN Some("ADDRESS") ELSE None
                          IN  /\ user_data' = user_data
                              /\ conv' = NextState("addtoken", returned)
                              /\ call' \in HandlerCalls(h, u, TRUE, calls, n, returned)
                   ELSE IF ~abi
                   THEN \E n \in 0..1 :
                          LET calls == <<Reply(u, IF ~abi THEN "wrong_abi"
                                                  ELSE "already_added")>>
                              returned == IF n = 0 THEN Some(END) ELSE None
                          IN  /\ user_data' =
                                   [user_data EXCEPT !["addtoken"] =
                                      IF n = 0 THEN None
                                      ELSE Some([add EXCEPT !.address = Some(text)])]
                              /\ conv' = NextState("addtoken", returned)
                              /\ call' \in HandlerCalls(h, u, TRUE, calls, n, returned)
                   ELSE \E n \in 0..1 :
                          LET calls == <<Reply(u, "send_emoji")>>
                              returned == IF n = 0 THEN Some("EMOJI") ELSE None
                          IN  /\ user_data' =
                                   [user_data EXCEPT !["addtoken"] =
                                      Some([add EXCEPT !.address = Some(text)])]
                              /\ conv' = NextState("addtoken", returned)
                              /\ call' \in HandlerCalls(h, u, TRUE, calls, n, returned)
                /\ UNCHANGED <<watchers, token_rows, order_rows, status, scheduler>>
                /\ BackEndUnchanged

\* command_addtoken_address, in state ADDRESS.  abi is whether the contract
\* answers decimals() and symbol(); token_exists looks the address up in the
\* token table.
CommandAddTokenAddress ==
    /\ conv["addtoken"] = "ADDRESS"
    /\ \E text \in AddressTexts, edited \in BOOLEAN, abi \in BOOLEAN :
         LET u == IF edited THEN EditedUpdate(admin_chat_id)
                  ELSE TextUpdate(admin_chat_id, text)
             h == "command_addtoken_address"
             add == Val(user_data["addtoken"])
         IN  \/ NotRun(h, u)
             \/ /\ Runs(u) /\ user_data["addtoken"] # None
                /\ IF ~isAddress(text)
                   THEN \E n \in 0..1 :
                          LET calls == <<Reply(u, "invalid_address")>>
                              returned == IF n = 0 THEN Some("ADDRESS") ELSE None
                          IN  /\ user_data' = user_data
                              /\ conv' = NextState("addtoken", returned)
                              /\ call' \in HandlerCalls(h, u, TRUE, calls, n, returned)
                   ELSE IF ~abi \/ text \in token_rows
                   THEN \E n \in 0..1 :
                          LET calls == <<Reply(u, IF ~abi THEN "wrong_abi"
                                                  ELSE "already_added")>>
                              returned == IF n = 0 THEN Some(END) ELSE None
                          IN  /\ user_data' =
                                   [user_data EXCEPT !["addtoken"] =
                                      IF n = 0 THEN None
                                      ELSE Some([add EXCEPT !.address = Some(text)])]
                              /\ conv' = NextState("addtoken", returned)
                              /\ call' \in HandlerCalls(h, u, TRUE, calls, n, returned)
                   ELSE \E n \in 0..1 :
                          LET calls == <<Reply(u, "send_emoji")>>
                              returned == IF n = 0 THEN Some("EMOJI") ELSE None
                          IN  /\ user_data' =
                                   [user_data EXCEPT !["addtoken"] =
                                      Some([add EXCEPT !.address = Some(text)])]
                              /\ conv' = NextState("addtoken", returned)
                              /\ call' \in HandlerCalls(h, u, TRUE, calls, n, returned)
                /\ UNCHANGED <<watchers, token_rows, order_rows, status, scheduler>>
                /\ BackEndUnchanged

\* command_addtoken_emoji (a text) and command_addtoken_noemoji (the button),
\* in state EMOJI.
CommandAddTokenEmoji ==
    /\ conv["addtoken"] = "EMOJI"
    /\ \E button \in BOOLEAN :
         LET u == IF button THEN CallbackUpdate(admin_chat_id, "None")
                  ELSE TextUpdate(admin_chat_id, "icon")
             h == IF button THEN "command_addtoken_noemoji"
                  ELSE "command_addtoken_emoji"
             add == Val(user_data["addtoken"])
         IN  \/ NotRun(h, u)
             \/ /\ Runs(u) /\ user_data["addtoken"] # None
                /\ \E n \in 0..1 :
                     LET calls == <<Reply(u, "send_slippage")>>
                         returned == IF n = 0 THEN Some("SLIPPAGE") ELSE None
                     IN  /\ user_data' =
                              [user_data EXCEPT !["addtoken"] =
                                 Some([add EXCEPT !.icon =
                                         IF button THEN None ELSE Some("icon")])]
                         /\ conv' = NextState("addtoken", returned)
                         /\ call' \in HandlerCalls(h, u, TRUE, calls, n, returned)
                /\ UNCHANGED <<watchers, token_rows, order_rows, status, scheduler>>
                /\ BackEndUnchanged

\* The calls of a slippage handler that does not accept the text, and the
\* state it returns when they succeed: a re-prompt in the same state, or
\* the exception of comparing a NaN.
RejectCalls(u, check) ==
    IF check = "raises" THEN <<<<"decimal", "InvalidOperation">>>>
    ELSE <<Reply(u, "invalid_slippage")>>

\* command_addtoken_slippage, in state SLIPPAGE.  created is whether
\* Token.create succeeds; n is the call that raises.  In the except branch
\* the handler deletes user_data['addtoken'] and returns, and its finally
\* block deletes the same key again: a KeyError leaves the handler.
CommandAddTokenSlippage ==
    /\ conv["addtoken"] = "SLIPPAGE"
    /\ \E text \in SlippageTexts, edited \in BOOLEAN, created \in BOOLEAN :
         LET u == IF edited THEN EditedUpdate(admin_chat_id)
                  ELSE TextUpdate(admin_chat_id, text)
             h == "command_addtoken_slippage"
             check == SlippageCheck(text)
         IN  \/ NotRun(h, u)
             \/ /\ Runs(u) /\ check # "valid"
                /\ \E n \in 0..1 :
                     LET calls == RejectCalls(u, check)
                         returned == IF n = 0 THEN Some("SLIPPAGE") ELSE None
                     IN  /\ check = "raises" => n = 1
                         /\ conv' = NextState("addtoken", returned)
                         /\ call' \in HandlerCalls(h, u, TRUE, calls, n, returned)
                /\ UNCHANGED <<user_data, watchers, token_rows, order_rows, status,
                               scheduler>>
                /\ BackEndUnchanged
             \/ /\ Runs(u) /\ check = "valid" /\ user_data["addtoken"] = None
                /\ call' \in HandlerCalls(h, u, TRUE, <<KeyError("addtoken")>>, 1, None)
                /\ UNCHANGED front
                /\ BackEndUnchanged
             \/ /\ Runs(u) /\ check = "valid" /\ user_data["addtoken"] # None
                /\ LET add == [Val(user_data["addtoken"]) EXCEPT
                                 !.default_slippage = Some(FormatTwo(DecimalOf(text)))]
                       address == Val(add.address)
                       calls == IF created
                                THEN <<Reply(u, "will_use"),
                                       Net("get_token_balance"),
                                       Net("get_token_balance_usd"),
                                       Net("is_approved"), Reply(u, "added")>>
                                ELSE <<Reply(u, "will_use"),
                                       Reply(u, "failed_to_create"),
                                       KeyError("addtoken")>>
                   IN  \E n \in 0..Len(calls) :
                         LET returned == IF n = 0 THEN Some(END) ELSE None
                             registered == created /\ n # 1
                         IN  /\ ~created => n \in {2, 3}
                             /\ user_data' = [user_data EXCEPT !["addtoken"] =
                                                IF n = 1 THEN Some(add) ELSE None]
                             /\ token_rows' = IF registered
                                              THEN token_rows \cup {address}
                                              ELSE token_rows
                             /\ watchers' =
                                  IF registered
                                  THEN [watchers EXCEPT ![address] =
                                          Some(TokenWatcher(Val(add.default_slippage),
                                                            None, 0))]
                                  ELSE watchers
                             /\ log' = IF n = 1 THEN log
                                        ELSE Append(log, <<h, IF created THEN "created"
                                                              ELSE "create_failed">>)
                             /\ conv' = NextState("addtoken", returned)
                             /\ call' \in HandlerCalls(h, u, TRUE, calls, n, returned)
                /\ UNCHANGED <<order_rows, status, scheduler>>
                /\ UNCHANGED <<order_record, stored, active, finished, min_price,
                               max_price, pc, sent, swaps, closes, threads, seen,
                               ticked, token_record, token_row, frame>>

\* command_canceltoken of the add-token conversation, the /cancel fallback.
CommandCancelAddToken ==
    /\ conv["addtoken"] # END
    /\ LET u == TextUpdate(admin_chat_id, "/cancel")
           h == "command_canceltoken"
       IN  IF user_data["addtoken"] = None
           THEN /\ call' \in HandlerCalls(h, u, TRUE, <<KeyError("addtoken")>>, 1, None)
                /\ UNCHANGED front
           ELSE \E n \in 0..1 :
                  LET calls == <<Reply(u, "cancelled")>>
                      returned == IF n = 0 THEN Some(END) ELSE None
                  IN  /\ user_data' = [user_data EXCEPT !["addtoken"] = None]
                      /\ conv' = NextState("addtoken", returned)
                      /\ call' \in HandlerCalls(h, u, TRUE, calls, n, returned)
                      /\ UNCHANGED <<watchers, token_rows, order_rows, status, scheduler>>
    /\ BackEndUnchanged

-----------------------------------------------------------------------------
(* The edit-token conversation (conversations/edittoken.py), for the token  *)
(* tracked from the start; the emoji branch is left out.                    *)

\* The token record after an edit assigned field to value, and what reached
\* the row, by the outcome of the write.
RecordAfter(outcome, written) ==
    IF outcome = "connect_failed" THEN token_record ELSE written
RowAfter(outcome, written) ==
    IF outcome = "saved" THEN written ELSE token_row

\* Web3.isChecksumAddress: the text is an address in its checksum spelling.
isChecksumAddress(text) == text \in Addresses

\* The addresses an entry callback may carry: the entry patterns take any
\* 40 hexadecimal digits, so the tracked token's address (as the bot's own
\* buttons spell it) and the same address in lower case.
ButtonAddresses == {Tracked, "0xa"}

\* The cancel and error helpers of the conversations (command_canceltoken,
\* cancel_command, command_error): the key is deleted, then the message is
\* sent; the handler that called them returns END.
Ends(c, h, u, text, before) ==
    IF user_data[c] = None
    THEN /\ call' \in HandlerCalls(h, u, TRUE, before \o <<KeyError(c)>>,
                                Len(before) + 1, None)
         /\ UNCHANGED <<conv, user_data>>
    ELSE \E n \in 0..(Len(before) + 1) :
           LET calls == before \o <<Reply(u, text)>>
               returned == IF n = 0 THEN Some(END) ELSE None
           IN  /\ user_data' = [user_data EXCEPT ![c] =
                                  IF n \in 1..Len(before) THEN @ ELSE None]
               /\ conv' = NextState(c, returned)
               /\ call' \in HandlerCalls(h, u, TRUE, calls, n, returned)

\* command_edittoken, the entry point: the button of a tracked token, or a
\* callback whose address is not in checksum form.
CommandEditToken ==
    /\ conv["edittoken"] = END
    /\ Edits < MaxEdits
    /\ \E token_address \in ButtonAddresses :
         LET u == CallbackUpdate(admin_chat_id, "edittoken:" \o token_address)
             h == "command_edittoken"
         IN  \/ NotRun(h, u)
             \/ /\ Runs(u)
                /\ IF ~isChecksumAddress(token_address)
                   THEN Ends("edittoken", h, u, "invalid_token_address", <<>>)
                   ELSE \E n \in 0..1 :
                          LET calls == <<Reply(u, "what_to_edit")>>
                              returned == IF n = 0 THEN Some("ACTION_CHOICE")
                                          ELSE None
                          IN  /\ user_data' =
                                   [user_data EXCEPT !["edittoken"] =
                                      Some([token_address |-> token_address])]
                              /\ conv' = NextState("edittoken", returned)
                              /\ call' \in HandlerCalls(h, u, TRUE, calls, n,
                                                        returned)
                /\ UNCHANGED <<watchers, token_rows, order_rows, status, scheduler>>
                /\ BackEndUnchanged

\* command_edittoken_action, in state ACTION_CHOICE.
CommandEditTokenAction ==
    /\ conv["edittoken"] = "ACTION_CHOICE"
    /\ \E data \in {"slippage", "buyprice", "cancel"} :
         LET u == CallbackUpdate(admin_chat_id, data)
             h == "command_edittoken_action"
         IN  \/ NotRun(h, u)
             \/ /\ Runs(u)
                /\ IF user_data["edittoken"] = None
                   THEN /\ call' \in HandlerCalls(h, u, TRUE,
                                               <<KeyError("edittoken")>>, 1, None)
                        /\ UNCHANGED <<conv, user_data>>
                   ELSE IF data = "cancel"
                   THEN Ends("edittoken", h, u, "cancelled", <<>>)
                   ELSE LET calls == IF data = "slippage"
                                     THEN <<Reply(u, "send_slippage")>>
                                     ELSE <<Net("get_token_price"),
                                            Reply(u, "send_buy_price")>>
                        IN  \E n \in 0..Len(calls) :
                              LET returned ==
                                    IF n # 0 THEN None
                                    ELSE IF data = "slippage" THEN Some("SLIPPAGE")
                                    ELSE Some("BUYPRICE")
                              IN  /\ conv' = NextState("edittoken", returned)
                                  /\ call' \in HandlerCalls(h, u, TRUE, calls, n,
                                                         returned)
                                  /\ UNCHANGED user_data
                /\ UNCHANGED <<watchers, token_rows, order_rows, status, scheduler>>
                /\ BackEndUnchanged

\* The final step of an edit: the field is assigned and saved inside the
\* try.  When the write fails, command_error deletes the key and the
\* finally block deletes it again: a KeyError leaves the handler, after the
\* error message unless its send raised.  When it succeeds the attribute of
\* the TokenWatcher is set and the confirmation is sent.
EditTokenWrite(h, u, written, attribute, outcome) ==
    LET calls == IF outcome = "saved" THEN <<Reply(u, "edited")>>
                 ELSE <<Reply(u, "failed_to_update"), KeyError("edittoken")>>
    IN  \E n \in 0..Len(calls) :
          LET returned == IF n = 0 THEN Some(END) ELSE None
          IN  /\ outcome # "saved" => n # 0
              /\ token_record' = RecordAfter(outcome, written)
              /\ token_row' = RowAfter(outcome, written)
              /\ log' = Append(log, <<h, outcome>>)
              /\ user_data' = [user_data EXCEPT !["edittoken"] = None]
              /\ watchers' = IF outcome = "saved"
                             THEN [watchers EXCEPT ![Tracked] = Some(attribute)]
                             ELSE watchers
              /\ conv' = NextState("edittoken", returned)
              /\ call' \in HandlerCalls(h, u, TRUE, calls, n, returned)
              /\ UNCHANGED <<order_record, stored, active, finished, min_price,
                             max_price, pc, sent, swaps, closes, threads, seen,
                             ticked, frame, token_rows, order_rows, status,
                             scheduler>>

\* The handler of a final step leaves the token alone.
EditTokenKeeps ==
    /\ UNCHANGED <<watchers, token_rows, order_rows, status, scheduler>>
    /\ BackEndUnchanged

\* command_edittoken_slippage, in state SLIPPAGE: a typed text, or the
\* button that keeps the current value or cancels.
CommandEditTokenSlippage ==
    /\ conv["edittoken"] = "SLIPPAGE"
    /\ \E text \in SlippageTexts \cup {"keep", "cancel"}, edited \in BOOLEAN,
          outcome \in EditOutcomes :
         LET tw == Val(watchers[Tracked])
             button == text \in {"keep", "cancel"}
             data == IF text = "keep" THEN tw.default_slippage ELSE text
             u == IF edited THEN EditedUpdate(admin_chat_id)
                  ELSE IF button THEN CallbackUpdate(admin_chat_id, data)
                  ELSE TextUpdate(admin_chat_id, text)
             h == "command_edittoken_slippage"
             check == IF text = "cancel" THEN "cancel" ELSE SlippageCheck(data)
             slippage == FormatTwo(DecimalOf(data))
         IN  \/ NotRun(h, u)
             \/ /\ Runs(u) /\ user_data["edittoken"] = None
                /\ call' \in HandlerCalls(h, u, TRUE, <<KeyError("edittoken")>>, 1, None)
                /\ UNCHANGED <<conv, user_data>>
                /\ EditTokenKeeps
             \/ /\ Runs(u) /\ user_data["edittoken"] # None /\ check = "cancel"
                /\ Ends("edittoken", h, u, "cancelled", <<>>)
                /\ EditTokenKeeps
             \/ /\ Runs(u) /\ user_data["edittoken"] # None
                /\ check \in {"unparsable", "out_of_range", "raises"}
                /\ \E n \in 0..1 :
                     LET calls == RejectCalls(u, check)
                         returned == IF n = 0 THEN Some("SLIPPAGE") ELSE None
                     IN  /\ check = "raises" => n = 1
                         /\ conv' = NextState("edittoken", returned)
                         /\ call' \in HandlerCalls(h, u, TRUE, calls, n, returned)
                /\ UNCHANGED user_data
                /\ EditTokenKeeps
             \/ /\ Runs(u) /\ user_data["edittoken"] # None /\ check = "valid"
                /\ EditTokenWrite(h, u,
                       [token_record EXCEPT !.default_slippage = slippage],
                       [tw EXCEPT !.default_slippage = slippage], outcome)

\* What the user may type for a buy price: text that is no number, prices,
\* and an amount of BNB to be divided by the token balance.
PriceTexts == {"abc", "0", "0.2", "40bnb"}

\* The price typed, or the amount over the balance.
PriceOf(text, balance) ==
    CASE text = "0" -> Rat(0, 1)
      [] text = "0.2" -> Rat(1, 5)
      [] text = "40bnb" -> Rat(40, balance)

\* command_edittoken_buyprice, in state BUYPRICE: a typed text, or the
\* button that disables the price or cancels.  Decimal(text) raising is not
\* the ValueError the handler catches.
CommandEditTokenBuyPrice ==
    /\ conv["edittoken"] = "BUYPRICE"
    /\ \E text \in PriceTexts \cup {"None", "cancel"}, edited \in BOOLEAN,
          balance \in Balances, outcome \in EditOutcomes :
         LET tw == Val(watchers[Tracked])
             button == text \in {"None", "cancel"}
             u == IF edited THEN EditedUpdate(admin_chat_id)
                  ELSE IF button THEN CallbackUpdate(admin_chat_id, text)
                  ELSE TextUpdate(admin_chat_id, text)
             h == "command_edittoken_buyprice"
             zero == text = "40bnb" /\ balance = 0
             price == IF text = "None" THEN None
                      ELSE Some(PriceOf(text, balance))
         IN  \/ NotRun(h, u)
             \/ /\ Runs(u) /\ user_data["edittoken"] = None
                /\ call' \in HandlerCalls(h, u, TRUE, <<KeyError("edittoken")>>, 1, None)
                /\ UNCHANGED <<conv, user_data>>
                /\ EditTokenKeeps
             \/ /\ Runs(u) /\ user_data["edittoken"] # None /\ text = "cancel"
                /\ Ends("edittoken", h, u, "cancelled", <<>>)
                /\ EditTokenKeeps
             \/ /\ Runs(u) /\ user_data["edittoken"] # None
                /\ text = "abc" \/ zero
                /\ \E n \in 0..2 :
                     LET calls == IF zero
                                  THEN <<Net("get_token_balance"),
                                         Reply(u, "balance_is_zero")>>
                                  ELSE <<<<"decimal", "InvalidOperation">>>>
                         returned == IF n = 0 THEN Some("BUYPRICE") ELSE None
                     IN  /\ n <= Len(calls)
                         /\ ~zero => n = 1
                         /\ conv' = NextState("edittoken", returned)
                         /\ call' \in HandlerCalls(h, u, TRUE, calls, n, returned)
                /\ UNCHANGED user_data
                /\ EditTokenKeeps
             \/ /\ Runs(u) /\ user_data["edittoken"] # None
                /\ text \notin {"abc", "cancel"} /\ ~zero
                /\ EditTokenWrite(h, u,
                       [token_record EXCEPT !.effective_buy_price =
                                               StoredBuyPrice(price)],
                       [tw EXCEPT !.effective_buy_price = price], outcome)

-----------------------------------------------------------------------------
(* The buy/sell conversation (conversations/buysell.py), for the token      *)
(* tracked from the start, and the price job of its scheduler.              *)

\* A step of a conversation that fills the dict and asks for the next
\* value: the first k calls come before the assignment, the others after.
Asks(c, h, u, calls, k, dict, next) ==
    \E n \in 0..Len(calls) :
      LET returned == IF n = 0 THEN Some(next) ELSE None
      IN  /\ user_data' = [user_data EXCEPT ![c] =
                             IF n = 0 \/ n > k THEN Some(dict) ELSE @]
          /\ conv' = NextState(c, returned)
          /\ call' \in HandlerCalls(h, u, TRUE, calls, n, returned)

\* The handler is entered without its dict: context.user_data[c] raises.
NoDict(c, h, u) ==
    /\ user_data[c] = None
    /\ call' \in HandlerCalls(h, u, TRUE, <<KeyError(c)>>, 1, None)
    /\ UNCHANGED <<conv, user_data>>

\* The handlers before the last step leave everything but the conversation.
ConversationOnly ==
    /\ UNCHANGED <<watchers, token_rows, order_rows, status, scheduler>>
    /\ BackEndUnchanged

\* command_buysell, the entry point: the button of a tracked token, or a
\* callback whose address is not in checksum form.
CommandBuySell ==
    /\ conv["buysell"] = END
    /\ Edits < MaxEdits
    /\ \E token_address \in ButtonAddresses :
         LET u == CallbackUpdate(admin_chat_id, "buysell:" \o token_address)
             h == "command_buysell"
         IN  \/ NotRun(h, u)
             \/ /\ Runs(u)
                /\ IF ~isChecksumAddress(token_address)
                   THEN Ends("buysell", h, u, "invalid_token_address", <<>>)
                   ELSE Asks("buysell", h, u, <<Reply(u, "which_type")>>, 0,
                             [token_address |-> token_address, type |-> None,
                              trailing_stop |-> None, amount |-> FALSE], "TYPE")
                /\ ConversationOnly

\* command_buysell_type, in state TYPE.
CommandBuySellType ==
    /\ conv["buysell"] = "TYPE"
    /\ \E data \in {ConvBuy, ConvSell, "cancel"} :
         LET u == CallbackUpdate(admin_chat_id, data)
             h == "command_buysell_type"
         IN  \/ NotRun(h, u)
             \/ /\ Runs(u)
                /\ IF data = "cancel"
                   THEN Ends("buysell", h, u, "cancelled", <<>>)
                   ELSE \/ NoDict("buysell", h, u)
                        \/ /\ user_data["buysell"] # None
                           /\ Asks("buysell", h, u, <<Reply(u, "which_trailing")>>, 0,
                                   [Val(user_data["buysell"]) EXCEPT
                                      !.type = Some(data)], "TRAILING")
                /\ ConversationOnly

\* command_buysell_trailing, in state TRAILING: a button (a rate, none or
\* cancel) or a typed rate, which int() must accept.
CommandBuySellTrailing ==
    /\ conv["buysell"] = "TRAILING"
    /\ \E text \in {"None", "cancel", "10", "0", "-10", "abc"},
          edited \in BOOLEAN :
         LET button == text \in {"None", "cancel"}
             u == IF edited THEN EditedUpdate(admin_chat_id)
                  ELSE IF button THEN CallbackUpdate(admin_chat_id, text)
                  ELSE TextUpdate(admin_chat_id, text)
             h == "command_buysell_trailing"
             rate == CASE text = "None" -> None
                       [] text = "10" -> Some(10)
                       [] text = "0" -> Some(0)
                       [] text = "-10" -> Some(-10)
                       [] OTHER -> None
         IN  \/ NotRun(h, u)
             \/ /\ Runs(u)
                /\ \/ NoDict("buysell", h, u)
                   \/ /\ user_data["buysell"] # None /\ text = "cancel"
                      /\ Ends("buysell", h, u, "cancelled", <<Net("get_balance")>>)
                   \/ /\ user_data["buysell"] # None /\ text = "abc"
                      /\ Asks("buysell", h, u,
                              <<Net("get_balance"), Reply(u, "rate_not_recognized")>>,
                              2, Val(user_data["buysell"]), "TRAILING")
                   \/ /\ user_data["buysell"] # None /\ text \notin {"cancel", "abc"}
                      /\ Asks("buysell", h, u,
                              <<Net("get_balance"), Reply(u, "how_much")>>, 1,
                              [Val(user_data["buysell"]) EXCEPT
                                 !.trailing_stop = Some(rate)], "AMOUNT")
                /\ ConversationOnly

\* command_buysell_amount and print_summary, in state AMOUNT: a button (a
\* fraction of the balance, or cancel) or a typed amount.
CommandBuySellAmount ==
    /\ conv["buysell"] = "AMOUNT"
    /\ \E text \in {"1.0", "cancel", "40", "abc"}, edited \in BOOLEAN :
         LET button == text \in {"1.0", "cancel"}
             u == IF edited THEN EditedUpdate(admin_chat_id)
                  ELSE IF button THEN CallbackUpdate(admin_chat_id, text)
                  ELSE TextUpdate(admin_chat_id, text)
             h == "command_buysell_amount"
         IN  \/ NotRun(h, u)
             \/ /\ Runs(u)
                /\ \/ NoDict("buysell", h, u)
                   \/ /\ user_data["buysell"] # None /\ text = "cancel"
                      /\ Ends("buysell", h, u, "cancelled", <<>>)
                   \/ /\ user_data["buysell"] # None /\ text = "abc"
                      /\ Asks("buysell", h, u, <<Reply(u, "invalid_amount")>>, 1,
                              Val(user_data["buysell"]), "AMOUNT")
                   \/ /\ user_data["buysell"] # None /\ text \notin {"cancel", "abc"}
                      /\ Asks("buysell", h, u,
                              (IF button THEN <<Net("get_token_balance")>> ELSE <<>>)
                              \o <<Net("get_bnb_price"), Net("get_token_price"),
                                   Reply(u, "confirm_below"),
                                   Net("get_token_price"), Net("get_bnb_price"),
                                   Reply(u, "preview")>>,
                              IF button THEN 3 ELSE 2,
                              [Val(user_data["buysell"]) EXCEPT !.amount = TRUE],
                              "SUMMARY")
                /\ ConversationOnly

\* The price job runs one instance at a time (the scheduler's max_instances).
max_instances == 1

\* "check prices now" with the job asked for the next price check at once:
\* the tick is run in place, whatever the scheduler is running.
CheckPricesNow_direct(s) == [s EXCEPT !.running = @ + 1]

\* "check prices now", the end of command_buysell_summary: the next run time
\* of the token's price job is set to now, so that the job is due.
CheckPricesNow(s) == [s EXCEPT !.due = TRUE]

\* command_buysell_summary, in state SUMMARY: the order is created and
\* attached to the token, or the creation fails (the connection or the
\* insert raises).
CommandBuySellSummary ==
    /\ conv["buysell"] = "SUMMARY"
    /\ \E data \in {"ok", "cancel"},
          outcome \in {"created", "connect_failed", "create_failed"} :
         LET u == CallbackUpdate(admin_chat_id, data)
             h == "command_buysell_summary"
         IN  \/ NotRun(h, u)
             \/ /\ Runs(u) /\ data = "cancel"
                /\ Ends("buysell", h, u, "cancelled", <<>>)
                /\ ConversationOnly
             \/ /\ Runs(u) /\ data = "ok"
                /\ NoDict("buysell", h, u)
                /\ ConversationOnly
             \/ /\ Runs(u) /\ data = "ok" /\ user_data["buysell"] # None
                /\ LET created == outcome = "created"
                       calls == IF created THEN <<Reply(u, "order_added")>>
                                ELSE <<Reply(u, "failed_to_create"),
                                       KeyError("buysell")>>
                       tw == Val(watchers[Tracked])
                   IN  \E n \in 0..Len(calls) :
                         LET returned == IF n = 0 THEN Some(END) ELSE None
                         IN  /\ ~created => n # 0
                             /\ user_data' = [user_data EXCEPT !["buysell"] = None]
                             /\ log' = Append(log, <<h, outcome>>)
                             /\ order_rows' = IF created THEN order_rows + 1
                                              ELSE order_rows
                             /\ watchers' =
                                  IF created
                                  THEN [watchers EXCEPT ![Tracked] =
                                          Some([tw EXCEPT !.orders = @ + 1])]
                                  ELSE watchers
                             /\ scheduler' = IF created /\ n = 0
                                             THEN CheckPricesNow(scheduler)
                                             ELSE scheduler
                             /\ conv' = NextState("buysell", returned)
                             /\ call' \in HandlerCalls(h, u, TRUE, calls, n, returned)
                /\ UNCHANGED <<token_rows, status>>
                /\ UNCHANGED <<order_record, stored, active, finished, min_price,
                               max_price, pc, sent, swaps, closes, threads, seen,
                               ticked, token_record, token_row, frame>>

\* command_cancelbuysell, the /cancel fallback of the buy/sell conversation.
CommandCancelBuySell ==
    /\ conv["buysell"] # END
    /\ LET u == TextUpdate(admin_chat_id, "/cancel")
           h == "command_cancelbuysell"
       IN  /\ Ends("buysell", h, u, "cancelled", <<>>)
           /\ ConversationOnly

\* The price job of the token's scheduler (interval trigger, one instance at
\* most, missed runs coalesced): the interval elapses and the job is due.
TimerDue ==
    /\ ~scheduler.due
    /\ scheduler' = [scheduler EXCEPT !.due = TRUE]
    /\ call' = HandlerCall("timer", EditedUpdate(admin_chat_id), FALSE, <<>>, 0, None)
    /\ UNCHANGED <<conv, user_data, watchers, token_rows, order_rows, status>>
    /\ BackEndUnchanged

\* The scheduler handles a due job: it starts a run, unless a run of the job
\* is still under way, in which case this run is skipped.
TickStart ==
    /\ scheduler.due
    /\ scheduler' = [due |-> FALSE,
                     running |-> IF scheduler.running >= max_instances
                                 THEN scheduler.running
                                 ELSE scheduler.running + 1]
    /\ call' = HandlerCall(IF scheduler.running >= max_instances
                           THEN "skipped" ELSE "monitor_price",
                           EditedUpdate(admin_chat_id), FALSE, <<>>, 0, None)
    /\ UNCHANGED <<conv, user_data, watchers, token_rows, order_rows, status>>
    /\ BackEndUnchanged

\* A run of the price job ends.
TickEnd ==
    /\ scheduler.running > 0
    /\ scheduler' = [scheduler EXCEPT !.running = @ - 1]
    /\ call' = HandlerCall("monitor_price_end", EditedUpdate(admin_chat_id),
                           FALSE, <<>>, 0, None)
    /\ UNCHANGED <<conv, user_data, watchers, token_rows, order_rows, status>>
    /\ BackEndUnchanged

-----------------------------------------------------------------------------
(* /status and the periodic status update (bot.py)                          *)

\* The balances the network reports, in BNB: the wallet's and a token's.
BnbBalances == {1}
TokenBalances == {1, 2}

\* sorted(self.watchers.values(), key=symbol): the tracked tokens in order.
sorted_tokens == SelectSeq(<<Tracked, "0xB">>, LAMBDA a : watchers[a] # None)

\* sum(token_balances) of get_summary_message, over the tokens listed.
RECURSIVE Sum(_, _)
Sum(balance, toks) ==
    IF toks = <<>> THEN 0 ELSE balance[Head(toks)] + Sum(balance, Tail(toks))

\* get_summary_message: the wallet's balance, the total of the balances it
\* is given and the grand total.
get_summary_message(balance_bnb, balance, toks) ==
    [balance_bnb |-> balance_bnb,
     total_positions |-> Sum(balance, toks),
     grand_total |-> balance_bnb + Sum(balance, toks)]

\* The calls of one status message per token listed.
RECURSIVE StatusCalls(_, _)
StatusCalls(toks, send) ==
    IF toks = <<>> THEN <<>>
    ELSE <<Net("get_token_status")>> \o send \o StatusCalls(Tail(toks), send)

\* What a run of command_status or update_status did, for the properties:
\* the summary it produced (None: none), the balances the network held and
\* the tokens tracked at that time.
StatusCall(c, summary, balance_bnb, balance) ==
    c @@ [summary |-> summary, balance_bnb |-> balance_bnb, balance |-> balance,
        tracked |-> sorted_tokens]

\* The status job runs one instance at a time (job_defaults of the status
\* scheduler).
max_status_instances == 1

\* The body of command_status after the job was paused: a status message per
\* tracked token, whose id the token keeps, then the summary message, whose
\* id the bot keeps; the job is resumed by the last statement.
CommandStatusBody(u, balance_bnb, balance) ==
    LET h == "command_status"
        toks == sorted_tokens
        calls == StatusCalls(toks, <<Reply(u, "status")>>)
                 \o <<Net("get_bnb_balance"), Net("get_bnb_price"),
                      Reply(u, "summary")>>
        Index(a) == CHOOSE i \in 1..Len(toks) : toks[i] = a
    IN  \E n \in 0..Len(calls) :
          LET produced == n = 0 \/ n > 2 * Len(toks) + 2
              summary == IF produced
                         THEN Some(get_summary_message(balance_bnb,
                                                       balance, toks))
                         ELSE None
          IN  /\ watchers' =
                   [a \in Addresses |->
                      IF watchers[a] # None
                         /\ (n = 0 \/ n > 2 * Index(a))
                      THEN Some([Val(watchers[a]) EXCEPT
                                   !.last_status_message_id = Some(1)])
                      ELSE watchers[a]]
              /\ status' = [status EXCEPT
                              !.last_status_message_id =
                                 IF n = 0 THEN Some(1) ELSE @,
                              !.paused = n # 0,
                              !.command = FALSE]
              /\ \E c \in HandlerCalls(h, u, TRUE, calls, n, None) :
                   call' = StatusCall(c, summary, balance_bnb, balance)

\* command_status, from the pause of the update job at its start to the
\* resume at its end.
CommandStatus ==
    \E chat \in Chats, balance_bnb \in BnbBalances,
       balance \in [Addresses -> TokenBalances] :
      LET u == TextUpdate(chat, "/status")
      IN  \/ NotRun("command_status", u)
          \/ /\ Runs(u)
             /\ CommandStatusBody(u, balance_bnb, balance)
             /\ UNCHANGED <<conv, user_data, token_rows, order_rows, scheduler>>
             /\ BackEndUnchanged

\* A run of update_status: the status message of each token that has one is
\* edited, then the summary message.  A failed edit is reported with a
\* message.
UpdateStatusRun ==
    \E balance_bnb \in BnbBalances, balance \in [Addresses -> TokenBalances],
       failed \in BOOLEAN :
      LET u == EditedUpdate(admin_chat_id)
          h == "update_status"
          report == IF failed THEN <<Send(<<admin_chat_id, "exception_update">>)>>
                    ELSE <<>>
          toks == SelectSeq(sorted_tokens, LAMBDA a :
                     Val(watchers[a]).last_status_message_id # None)
          calls == StatusCalls(toks, report)
                   \o <<Net("get_bnb_balance"), Net("get_bnb_price")>> \o report
      IN  IF status.last_status_message_id = None
          THEN call' = StatusCall(HandlerCall(h, u, TRUE, <<>>, 0, None),
                                  None, balance_bnb, balance)
          ELSE \E n \in 0..Len(calls) :
                 LET produced == n = 0 \/ n > Len(calls) - Len(report)
                     summary == IF produced
                                THEN Some(get_summary_message(balance_bnb,
                                                              balance, toks))
                                ELSE None
                 IN  call' = StatusCall(HandlerCall(h, u, TRUE, calls, n, None),
                                        summary, balance_bnb, balance)

\* update_status, the job of the status scheduler, which does not run it
\* while the job is paused.
UpdateStatus ==
    /\ ~status.paused
    /\ UpdateStatusRun
    /\ UNCHANGED front
    /\ BackEndUnchanged

\* The same two functions as the threads that run them: command_status in
\* the dispatcher's thread, update_status in a worker of the status
\* scheduler (one instance at most).  Pausing the job keeps the scheduler
\* from starting a run; a run that has started goes on.

\* The scheduler starts a run of update_status, which returns at its first
\* statement when /status was not called yet.
UpdateStatusStart ==
    /\ ~status.paused
    /\ status.running < max_status_instances
    /\ IF status.last_status_message_id = None
       THEN UpdateStatusRun /\ status' = status
       ELSE /\ status' = [status EXCEPT !.running = @ + 1]
            /\ call' = HandlerCall("status_scheduler",
                                   EditedUpdate(admin_chat_id), FALSE, <<>>, 0,
                                   None)
    /\ UNCHANGED <<conv, user_data, watchers, token_rows, order_rows, scheduler>>
    /\ BackEndUnchanged

\* The run of update_status ends.
UpdateStatusEnd ==
    /\ status.running > 0
    /\ UpdateStatusRun
    /\ status' = [status EXCEPT !.running = @ - 1]
    /\ UNCHANGED <<conv, user_data, watchers, token_rows, order_rows, scheduler>>
    /\ BackEndUnchanged

\* command_status, first statement: pause_status_update(True).
CommandStatusPause ==
    /\ ~status.command
    /\ status' = [status EXCEPT !.paused = TRUE, !.command = TRUE]
    /\ call' = HandlerCall("pause_status_update",
                           TextUpdate(admin_chat_id, "/status"), TRUE, <<>>, 0,
                           None)
    /\ UNCHANGED <<conv, user_data, watchers, token_rows, order_rows, scheduler>>
    /\ BackEndUnchanged

\* command_status, the statements after the pause.
CommandStatusRest ==
    /\ status.command
    /\ \E balance_bnb \in BnbBalances, balance \in [Addresses -> TokenBalances] :
         CommandStatusBody(TextUpdate(admin_chat_id, "/status"), balance_bnb,
                           balance)
    /\ UNCHANGED <<conv, user_data, token_rows, order_rows, scheduler>>
    /\ BackEndUnchanged

-----------------------------------------------------------------------------
(* The sell-all conversation (conversations/sellall.py)                     *)

\* command_sellall, the entry point: the button of a tracked token, or a
\* callback whose address is not in checksum form.
CommandSellAll ==
    /\ conv["sellall"] = END
    /\ Edits < MaxEdits
    /\ \E token_address \in ButtonAddresses :
         LET u == CallbackUpdate(admin_chat_id, "sellall:" \o token_address)
             h == "command_sellall"
             bad == ~isChecksumAddress(token_address)
             calls == <<Reply(u, IF bad THEN "invalid_token_address"
                                 ELSE "are_you_sure")>>
         IN  \/ NotRun(h, u)
             \/ /\ Runs(u)
                /\ \E n \in 0..1 :
                     LET returned == IF n # 0 THEN None
                                     ELSE IF bad THEN Some(END)
                                     ELSE Some("CONFIRM")
                     IN  /\ conv' = NextState("sellall", returned)
                         /\ call' \in HandlerCalls(h, u, TRUE, calls, n, returned)
                /\ UNCHANGED <<user_data, watchers, token_rows, order_rows,
                               status, scheduler>>
                /\ BackEndUnchanged

\* Mutant: the swap goes on after an approval that failed.
SellAllCalls_unapproved(u, approved, res, sold, orders) ==
    <<Net("is_approved")>>
    \o (IF approved THEN <<>>
        ELSE <<Reply(u, "approving"), Net("approve"),
               Reply(u, IF res THEN "approved" ELSE "not_approved")>>)
    \o <<Net("get_token_balance_wei"), Reply(u, "selling"), Net("sell_tokens")>>
    \o (IF ~sold THEN <<Reply(u, "transaction_failed")>>
        ELSE <<Net("get_bnb_price"), Reply(u, "received")>>
             \o (IF orders > 0 THEN <<Reply(u, "still_orders")>> ELSE <<>>))

\* The calls of command_sellall_confirm for a tracked token: approved is
\* what is_approved answers, res what approve returns, sold what sell_tokens
\* returns and orders the number of the token's pending orders.
SellAllCalls(u, approved, res, sold, orders) ==
    <<Net("is_approved")>>
    \o (IF approved THEN <<>>
        ELSE <<Reply(u, "approving"), Net("approve"),
               Reply(u, IF res THEN "approved" ELSE "not_approved")>>)
    \o (IF ~approved /\ ~res THEN <<>>
        ELSE <<Net("get_token_balance_wei"), Reply(u, "selling"),
               Net("sell_tokens")>>
             \o (IF ~sold THEN <<Reply(u, "transaction_failed")>>
                 ELSE <<Net("get_bnb_price"), Reply(u, "received")>>
                      \o (IF orders > 0 THEN <<Reply(u, "still_orders")>>
                          ELSE <<>>)))

\* The place of sell_tokens among the calls of a handler, 0 when it is not
\* one of them.
SellTokensAt(calls) ==
    IF \E i \in 1..Len(calls) : calls[i] = Net("sell_tokens")
    THEN CHOOSE i \in 1..Len(calls) : calls[i] = Net("sell_tokens")
    ELSE 0

\* command_sellall_confirm, in state CONFIRM: the confirm button carries the
\* address, the other button 'cancel'.  The step keeps what the network
\* answered and the amount handed to sell_tokens in call.
CommandSellAllConfirm ==
    /\ conv["sellall"] = "CONFIRM"
    /\ \E data \in ButtonAddresses \cup {"cancel"} :
         LET u == CallbackUpdate(admin_chat_id, data)
             h == "command_sellall_confirm"
         IN  \/ NotRun(h, u)
             \/ /\ Runs(u) /\ (data = "cancel" \/ ~isChecksumAddress(data))
                /\ \E n \in 0..1 :
                     LET calls == <<Reply(u, IF data = "cancel" THEN "cancelled"
                                             ELSE "invalid_token_address")>>
                         returned == IF n = 0 THEN Some(END) ELSE None
                     IN  /\ conv' = NextState("sellall", returned)
                         /\ call' \in HandlerCalls(h, u, TRUE, calls, n, returned)
                /\ UNCHANGED <<user_data, watchers, token_rows, order_rows,
                               status, scheduler>>
                /\ BackEndUnchanged
             \/ /\ Runs(u) /\ data # "cancel" /\ isChecksumAddress(data)
                /\ Edits < MaxEdits
                /\ \E approved \in BOOLEAN, res \in BOOLEAN, sold \in BOOLEAN,
                      balance_tokens \in TokenBalances :
                     LET orders == Val(watchers[data]).orders
                         calls == SellAllCalls(u, approved, res, sold, orders)
                         at == SellTokensAt(calls)
                     IN  \E n \in 0..Len(calls) :
                           LET returned == IF n = 0 THEN Some(END) ELSE None
                               read == at # 0 /\ (n = 0 \/ n > at - 2)
                               called == at # 0 /\ (n = 0 \/ n >= at)
                           IN  /\ conv' = NextState("sellall", returned)
                               /\ swaps' = IF called
                                           THEN Append(swaps, "sell_tokens")
                                           ELSE swaps
                               /\ log' = IF called
                                         THEN Append(log, <<h, IF sold THEN "sold"
                                                               ELSE "failed">>)
                                         ELSE log
                               /\ call' \in
                                    {c @@ [is_approved |-> approved,
                                           approve |-> IF ~approved /\ (n = 0 \/ n > 3)
                                                       THEN Some(res) ELSE None,
                                           balance_tokens |->
                                             IF read THEN Some(balance_tokens)
                                             ELSE None,
                                           amount_tokens |->
                                             IF called THEN Some(balance_tokens)
                                             ELSE None] :
                                       c \in HandlerCalls(h, u, TRUE, calls, n,
                                                          returned)}
                /\ UNCHANGED <<order_record, stored, active, finished, min_price,
                               max_price, pc, sent, closes, threads, seen, ticked,
                               token_record, token_row, frame, user_data,
                               watchers, token_rows, order_rows, status,
                               scheduler>>

\* command_cancelsell, the /cancel fallback of the sell-all conversation.
CommandCancelSell ==
    /\ conv["sellall"] # END
    /\ LET u == TextUpdate(admin_chat_id, "/cancel")
           h == "command_cancelsell"
       IN  \E n \in 0..1 :
             LET returned == IF n = 0 THEN Some(END) ELSE None
             IN  /\ conv' = NextState("sellall", returned)
                 /\ call' \in HandlerCalls(h, u, TRUE, <<Reply(u, "cancelled")>>,
                                        n, returned)
                 /\ UNCHANGED <<user_data, watchers, token_rows, order_rows,
                                status, scheduler>>
                 /\ BackEndUnchanged

-----------------------------------------------------------------------------
(* The front end alone, a conversation at a time: the conversations of the  *)
(* admin chat are independent handlers with a key of context.user_data each.*)

BotInit ==
    InitFrom({r \in MarketOrders : r.type = ConvBuy /\ r.trailing_stop = None},
             {Some(<<1, 2>>)})

\* The status messages, with the add-token conversation that makes the set
\* of tracked tokens grow.
StatusNext ==
    \/ CommandStatus \/ UpdateStatus
    \/ CommandAddToken \/ CommandAddTokenAddress \/ CommandAddTokenEmoji
    \/ CommandAddTokenSlippage \/ CommandCancelAddToken

StatusSpec == BotInit /\ [][StatusNext]_vars

\* The status messages with command_status and update_status as threads.
StatusJobNext ==
    \/ UpdateStatusStart \/ UpdateStatusEnd
    \/ CommandStatusPause \/ CommandStatusRest

StatusJobSpec == BotInit /\ [][StatusJobNext]_vars

\* The status job is run by its scheduler every 30 seconds for as long as it
\* is not paused; nothing makes the user send a command.
FairStatusSpec == StatusSpec /\ WF_vars(UpdateStatus)

\* The edit-token conversation.
EditTokenNext ==
    \/ CommandEditToken \/ CommandEditTokenAction
    \/ CommandEditTokenSlippage \/ CommandEditTokenBuyPrice

EditTokenSpec == BotInit /\ [][EditTokenNext]_vars

\* The buy/sell conversation and the price job of the token.
BuySellNext ==
    \/ CommandBuySell \/ CommandBuySellType \/ CommandBuySellTrailing
    \/ CommandBuySellAmount \/ CommandBuySellSummary \/ CommandCancelBuySell
    \/ TimerDue \/ TickStart \/ TickEnd

BuySellSpec == BotInit /\ [][BuySellNext]_vars

\* The sell-all conversation.
SellAllNext ==
    \/ CommandSellAll \/ CommandSellAllConfirm \/ CommandCancelSell

SellAllSpec == BotInit /\ [][SellAllNext]_vars

-----------------------------------------------------------------------------
(* Properties of the front end *)

\* The step produced a summary message.
Summarised ==
    /\ call.op \in {"command_status", "update_status"}
    /\ call.ran
    /\ call.summary # None

\* C21: in every summary message, of command_status or of update_status,
\* the grand total is the wallet's balance plus the sum of the balances of
\* all the tracked tokens.
C21_GrandTotalCoversAllTokens ==
    Summarised =>
      Val(call.summary).grand_total
        = call.balance_bnb + Sum(call.balance, call.tracked)

\* What holds instead: the summary of command_status covers every tracked
\* token, that of update_status the tokens that have a status message.
GrandTotalCoversListedTokens ==
    Summarised =>
      LET listed == IF call.op = "command_status" THEN call.tracked
                    ELSE SelectSeq(call.tracked, LAMBDA a :
                           Val(watchers[a]).last_status_message_id # None)
      IN  Val(call.summary).grand_total
            = call.balance_bnb + Sum(call.balance, listed)

\* C24: the ticks of one tracker never overlap, also when "check prices now"
\* asks for an immediate tick after an order is created: at most one run of
\* the price job is under way, and a tick that falls due during a run is
\* skipped, not queued.
C24_TicksNeverOverlap ==
    /\ scheduler.running <= 1
    /\ [][/\ scheduler'.running <= 1
          /\ (scheduler.due /\ scheduler.running = 1 /\ scheduler' # scheduler)
               => scheduler' = [due |-> FALSE, running |-> 1]
                  \/ scheduler' = [due |-> TRUE, running |-> 0]]_vars

\* C24 witness: an order has been created, which asked for an immediate
\* tick, and a tick that fell due during a run has just been skipped.
C24_Witness ==
    /\ call.op = "skipped"
    /\ scheduler = [due |-> FALSE, running |-> 1]
    /\ order_rows = 1

\* The step is a handler taking a typed text that is malformed: an invalid
\* address in add-token, or in add-token and edit-token a slippage that does
\* not parse or is not inside [0.01, 100].
MalformedInput ==
    /\ call'.op \in {"command_addtoken_address", "command_addtoken_slippage",
                     "command_edittoken_slippage"}
    /\ call'.ran
    /\ call'.update.message # None
    /\ call'.fault # "key"
    /\ LET text == Val(Val(call'.update.message).text)
       IN  IF call'.op = "command_addtoken_address" THEN ~isAddress(text)
           ELSE SlippageCheck(text) # "valid"

\* The token records, the trackers and the attributes of the tokens in memory.
tokens == <<token_record, token_row, token_rows, watchers>>

\* C25: malformed input is rejected with a re-prompt: the conversation stays
\* in the same state and no token record, tracker or in-memory attribute is
\* created or modified.  (Steps whose message could not be sent are left
\* out.)
C25_MalformedInputReprompted ==
    [][(MalformedInput /\ call'.fault # "send")
         => /\ conv' = conv
            /\ UNCHANGED tokens
            /\ ~call'.raised
            /\ call'.replies
                 \in {<<<<admin_chat_id, "invalid_address">>>>,
                      <<<<admin_chat_id, "invalid_slippage">>>>}]_vars

\* What holds instead: malformed input changes neither the state of the
\* conversation nor any token, and the handler either sends the re-prompt
\* or raises.
MalformedInputChangesNothing ==
    [][MalformedInput
         => /\ conv' = conv
            /\ UNCHANGED tokens
            /\ UNCHANGED user_data
            /\ call'.raised
               \/ call'.replies
                    \in {<<<<admin_chat_id, "invalid_address">>>>,
                         <<<<admin_chat_id, "invalid_slippage">>>>}]_vars

\* The step is the final step of a conversation whose database write failed.
WriteFailed ==
    /\ Len(log') = Len(log) + 1
    /\ log'[Len(log')][1] \in {"command_buysell_summary", "command_addtoken_slippage",
                               "command_edittoken_slippage",
                               "command_edittoken_buyprice"}
    /\ log'[Len(log')][2] \notin {"created", "saved"}

\* The conversation of a handler.
ConversationOf(h) ==
    CASE h = "command_buysell_summary" -> "buysell"
      [] h = "command_addtoken_slippage" -> "addtoken"
      [] OTHER -> "edittoken"

\* The error message of a failed write was delivered.
ErrorReported ==
    \E i \in 1..Len(call'.replies) :
      call'.replies[i][2] \in {"failed_to_create", "failed_to_update"}

\* C26: when the database write of a final step fails, the error is
\* reported, no order is attached, no tracker registered and no in-memory
\* token attribute changed, the pending data is cleared and the handler
\* returns END without raising, so that the conversation ends.  (Steps
\* whose error message could not be sent are left out.)
C26_WriteFailureEndsConversation ==
    [][(WriteFailed /\ call'.fault # "send")
         => /\ ErrorReported
            /\ UNCHANGED <<watchers, token_rows, order_rows, token_record, token_row>>
            /\ user_data'[ConversationOf(call'.op)] = None
            /\ ~call'.raised
            /\ call'.returned = Some(END)
            /\ conv'[ConversationOf(call'.op)] = END]_vars

\* What holds instead: the error is reported unless its message cannot be
\* sent, nothing is attached, registered or stored, and the pending data is
\* cleared; but the handler raises and the conversation stays in its state.
WriteFailureRaises ==
    [][WriteFailed
         => /\ ErrorReported \/ call'.fault = "send"
            /\ UNCHANGED <<watchers, token_rows, order_rows, token_row>>
            /\ user_data'[ConversationOf(call'.op)] = None
            /\ call'.raised
            /\ call'.returned = None
            /\ conv' = conv]_vars

\* The step is a call of a wrapped handler (update_status is a job).
Wrapped == call'.op # "update_status"

\* The update of the step comes from a chat that is not the admin's.
FromOther == call'.update.effective_chat # Some(admin_chat_id)

\* The two refusal messages, in the order the wrapper sends them.
Refusals ==
    <<<<admin_chat_id, "prevented">>,
      <<Val(call'.update.effective_chat), "not_public">>>>

\* The body did not run and nothing of the bot changed.
NothingDone ==
    /\ ~call'.ran
    /\ UNCHANGED front
    /\ UNCHANGED <<order_record, stored, token, log>>

\* C27 as stated: a wrapped handler runs its body only for the admin chat;
\* for an update from any other chat the body is not executed, nothing is
\* created, changed or removed, and the admin chat and the requesting chat
\* each receive a refusal.  (Steps whose message could not be sent are left
\* out.)
C27_OtherChatsAlwaysRefused ==
    [][Wrapped
         => /\ call'.ran => ~FromOther
            /\ (FromOther /\ call'.fault # "send")
                 => NothingDone /\ call'.replies = Refusals]_vars

\* The update has no chat, or neither a message nor a callback query (an
\* edited message), or a message without text and no callback query.
Dropped ==
    LET u == call'.update
    IN  \/ u.effective_chat = None
        \/ u.message = None /\ u.callback_query = None
        \/ u.message # None /\ Val(u.message).text = None /\ u.callback_query = None

\* C27 amended: a wrapped handler runs its body only for the admin chat; for
\* an update from any other chat the body is not executed and nothing is
\* created, changed or removed.  Such an update is dropped without any
\* message when it has no chat, or neither a message nor a callback query
\* (an edited message), or a message without text; otherwise the wrapper
\* sends a refusal to the admin chat and then one to the requesting chat,
\* stopping at the first call that raises, after which the only other
\* message is the error handler's to the requesting chat.
C27_OtherChatsRefusedOrDropped ==
    [][Wrapped
         => /\ call'.ran => ~FromOther
            /\ FromOther
                 => /\ NothingDone
                    /\ IF Dropped
                       THEN call'.replies = <<>> /\ ~call'.raised
                       ELSE IF call'.raised
                       THEN \E own \in {<<>>, SubSeq(Refusals, 1, 1)} :
                              call'.replies
                                \in {own, own \o <<<<Val(call'.update.effective_chat),
                                                     "exception">>>>}
                       ELSE call'.replies = Refusals]_vars

\* C27 witness: another chat sent /status; the body did not run, no status
\* message was recorded and both refusals were delivered.
C27_Witness ==
    /\ call.op = "command_status"
    /\ call.update.effective_chat = Some("other")
    /\ ~call.ran
    /\ call.replies = <<<<admin_chat_id, "prevented">>, <<"other", "not_public">>>>
    /\ status.last_status_message_id = None

-----------------------------------------------------------------------------
(* Properties of the watcher, continued *)

\* The watermark of the order, whichever side it trails.
Armed == min_price # None \/ max_price # None

\* C32: the "trailing stop armed" notification is sent exactly once per
\* trailing order: on the price update that first sets the watermark, and
\* on no later update, however often the watermark is moved afterwards.
C32_ArmedNotifiedOnce ==
    /\ [](Count(sent, {"armed"}) = IF Armed THEN 1 ELSE 0)
    /\ [][Count(NewlySent, {"armed"}) = IF ~Armed /\ Armed' THEN 1 ELSE 0]_vars

\* C32 witness: the watermark was armed and has since been moved by a later
\* price, with one notification sent.
C32_Witness ==
    /\ Count(sent, {"armed"}) = 1
    /\ Cardinality(seen) >= 2
    /\ \/ min_price # None /\ \E p \in seen : p > Val(min_price)
       \/ max_price # None /\ \E p \in seen : p < Val(max_price)
    /\ active

\* The order was written by the buy/sell conversation, whose callback rate
\* is whatever int() accepts from the button or the typed message.
FromConversation == order_record.type \in {ConvBuy, ConvSell}

\* C34: for every integer callback rate the conversation accepts, a trailing
\* order never fires on the update that arms its watermark; it fires only on
\* a later update, at a price strictly above the watermark for a buy and
\* strictly below it for a sell.
C34_NeverFiresOnArmingUpdate ==
    [][(Evaluated /\ FromConversation /\ order_record.trailing_stop # None
        /\ ~active')
       => /\ Armed
          /\ min_price # None => call'.price > Val(min_price)
          /\ max_price # None => call'.price < Val(max_price)]_vars

\* What holds instead: the same for every callback rate that is not
\* negative.
PositiveRateNeverFiresOnArming ==
    [][(Evaluated /\ FromConversation /\ order_record.trailing_stop # None
        /\ Val(order_record.trailing_stop) >= 0 /\ ~active')
       => /\ Armed
          /\ min_price # None => call'.price > Val(min_price)
          /\ max_price # None => call'.price < Val(max_price)]_vars

-----------------------------------------------------------------------------
(* Properties of the front end, continued *)

\* The addresses that have a tracker in the registry.
Registered == {a \in Addresses : watchers[a] # None}

\* The step is command_addtoken_address, run on the text of an address that
\* is already stored.
ExistingAddressSent ==
    /\ call'.op = "command_addtoken_address"
    /\ call'.ran
    /\ call'.update.message # None
    /\ Val(Val(call'.update.message).text) \in token_rows

BadAddressEntry ==
    /\ call'.op \in {"command_buysell", "command_edittoken"}
    /\ call'.ran
    /\ call'.update.callback_query
         \in {Some("buysell:" \o a) : a \in ButtonAddresses \ Addresses}
             \cup {Some("edittoken:" \o a) : a \in ButtonAddresses \ Addresses}

\* C37: an entry callback (buysell:<address> or edittoken:<address>) whose
\* address is not a checksum address makes the handler report the error and
\* return END without raising, and no pending entry is left.  (Steps whose
\* message could not be sent are left out.)
C37_BadAddressReported ==
    [][(BadAddressEntry /\ call'.fault # "send")
         => /\ ~call'.raised
            /\ call'.returned = Some(END)
            /\ call'.replies = <<<<admin_chat_id, "invalid_token_address">>>>
            /\ user_data' = [c \in Conversations |-> None]]_vars

\* What holds instead: the conversation stays ended, no pending entry is
\* left and nothing else changes; the handler raises KeyError unless an
\* entry was left behind by an earlier entry handler that raised.
BadAddressLeavesNothing ==
    [][BadAddressEntry
         => /\ conv' = conv /\ conv["buysell"] = END /\ conv["edittoken"] = END
            /\ user_data' = [c \in Conversations |-> None]
            /\ UNCHANGED <<watchers, token_rows, order_rows, token_record,
                           token_row, status>>
            /\ (user_data = [c \in Conversations |-> None])
                 => call'.raised /\ call'.fault = "key"]_vars

\* The step is a cancel path of the buy/sell conversation: the cancel button
\* in any of its states (in SUMMARY, any callback other than 'ok') or the
\* /cancel command.
CancelPath ==
    /\ call'.ran
    /\ \/ call'.op = "command_cancelbuysell"
       \/ /\ call'.op \in {"command_buysell_type", "command_buysell_trailing",
                           "command_buysell_amount", "command_buysell_summary"}
          /\ call'.update.callback_query = Some("cancel")

\* The step attaches an OrderWatcher to the token or creates an order record.
OrderAdded == watchers' # watchers \/ order_rows' # order_rows

\* An OrderWatcher is attached only by 'ok' in state SUMMARY, together with
\* the record it is built from.
AttachedOnlyAfterCreate ==
    OrderAdded
      => /\ call'.op = "command_buysell_summary"
         /\ call'.update.callback_query = Some("ok")
         /\ conv["buysell"] = "SUMMARY"
         /\ order_rows' = order_rows + 1
         /\ watchers' = [watchers EXCEPT ![Tracked] =
                           Some([Val(watchers[Tracked]) EXCEPT !.orders = @ + 1])]

\* C33: the buy/sell conversation attaches an OrderWatcher only after 'ok'
\* at SUMMARY and after the record was created; every cancel path ends the
\* conversation, clears the 'buysell' data and creates no order record and
\* no OrderWatcher.  (Cancel steps whose message could not be sent or whose
\* balance query failed are left out.)
C33_CancelPathsEnd ==
    [][/\ AttachedOnlyAfterCreate
       /\ (CancelPath /\ call'.fault \notin {"send", "net"})
            => /\ conv'["buysell"] = END
               /\ user_data'["buysell"] = None
               /\ ~OrderAdded]_vars

\* What holds instead: an OrderWatcher is attached only with its record, by
\* 'ok' at SUMMARY, and a cancel path adds nothing and leaves no 'buysell'
\* data, unless the balance query before it failed; it ends the conversation
\* when it does not raise.
CancelPathsAddNothing ==
    [][/\ AttachedOnlyAfterCreate
       /\ CancelPath
            => /\ call'.fault # "net" => user_data'["buysell"] = None
               /\ ~OrderAdded
               /\ ~call'.raised => conv'["buysell"] = END]_vars

\* The step is command_sellall_confirm on the confirm button of a token.
SellAllConfirmed ==
    call'.op = "command_sellall_confirm" /\ "is_approved" \in DOMAIN call'

\* C35: sell-all submits the sell swap only for an approved token: when the
\* token is not approved and the approval fails, the conversation ends
\* without calling sell_tokens (it ends when the handler's message is
\* delivered); a submitted swap sells the whole token balance read at
\* confirmation time; sell-all never removes or changes the token's pending
\* orders.
C35_SellAllOnlyApproved ==
    [][/\ swaps' # swaps
            => /\ SellAllConfirmed
               /\ call'.is_approved \/ call'.approve = Some(TRUE)
               /\ call'.balance_tokens # None
               /\ call'.amount_tokens = call'.balance_tokens
               /\ swaps' = Append(swaps, "sell_tokens")
       /\ (SellAllConfirmed /\ ~call'.is_approved /\ call'.approve # Some(TRUE))
            => /\ swaps' = swaps
               /\ call'.amount_tokens = None
               /\ ~call'.raised => conv'["sellall"] = END
       /\ UNCHANGED <<watchers, order_rows, order_record, stored, active,
                      finished, min_price, max_price>>]_vars

\* C35, witness: the token was not approved, the approval succeeded and the
\* whole balance read was sold, with the token's order still pending.
C35_Witness ==
    /\ call.op = "command_sellall_confirm"
    /\ "is_approved" \in DOMAIN call
    /\ ~call.is_approved /\ call.approve = Some(TRUE)
    /\ call.balance_tokens = Some(2) /\ call.amount_tokens = Some(2)
    /\ ~call.raised
    /\ swaps = <<"sell_tokens">>
    /\ conv["sellall"] = END
    /\ Val(watchers[Tracked]).orders = 1 /\ active /\ stored

\* C39: after every command_status call the periodic status job is
\* eventually resumed and never left paused, including when a network query
\* or a message send fails while the command is building the status.
C39_StatusJobResumed == status.paused ~> ~status.paused

\* What holds instead: only command_status pauses and resumes the job, and a
\* call of it leaves the job paused exactly when it raised.
ResumedUnlessRaised ==
    [][/\ status'.paused # status.paused => call'.op = "command_status"
       /\ (call'.op = "command_status" /\ call'.ran)
            => status'.paused = call'.raised]_vars

\* C38: the periodic update_status never runs while command_status is
\* sending the status messages and changing the last status message ids:
\* command_status pauses the job before its first change and resumes it
\* after its last, and no run of update_status overlaps that interval.
C38_NoUpdateDuringStatus ==
    /\ [](~(status.command /\ status.running > 0))
    /\ [][/\ (watchers' # watchers
              \/ status'.last_status_message_id # status.last_status_message_id)
            => status.command /\ status.paused
          /\ (status.command /\ ~status'.command /\ ~call'.raised)
            => ~status'.paused]_vars

\* What holds instead: the ids change only between the pause and the end of
\* command_status, which resumes the job when it does not raise, and no run
\* of update_status starts in that interval; a run that started before the
\* pause goes on during it.
NoUpdateStartsDuringStatus ==
    [][/\ (watchers' # watchers
           \/ status'.last_status_message_id # status.last_status_message_id)
         => status.command /\ status.paused
       /\ (status.command /\ ~status'.command /\ ~call'.raised)
         => ~status'.paused
       /\ status.command => status'.running <= status.running]_vars

-----------------------------------------------------------------------------
(* Properties of the watcher across a restart *)

\* C31: at-most-once execution survives a restart of the bot: the active and
\* finished flags exist only in memory and the order record is deleted only
\* after the execution completes, yet an order whose swap was already
\* submitted before the process stopped is not loaded again as an active
\* order and does not submit a second swap.
C31_AtMostOnceAcrossRestart ==
    /\ [](Len(swaps) <= 1)
    /\ [][(call'.op = "restart" /\ Len(swaps) > 0) => ~active']_vars

\* What holds instead: an order submits one swap at most in each run of the
\* bot, and an order whose record was deleted is not loaded again.
AtMostOncePerStart ==
    /\ [](Len(swaps) <= 1 + Restarts)
    /\ [][(call'.op = "restart" /\ ~stored) => (~active' /\ finished')]_vars
    /\ [][swaps' # swaps => stored]_vars

=============================================================================
